---- MODULE Spec2Model ----
(***************************************************************************)
(* Model of the Crypto-Alert-Bot pipeline: PriceMonitor (quote aggregation *)
(* and arbitrage detection), AlertManager (dedup ledger and dispatch) and  *)
(* the SaaSService monitoring loop.                                        *)
(*                                                                         *)
(* Conventions                                                             *)
(*  - a Python dict {exchange: PriceData} is a sequence of records         *)
(*    [ex, pd] in insertion order (dict order decides max()/min() ties);   *)
(*  - a Python dict keyed by symbol is a function whose DOMAIN is the set  *)
(*    of keys present;                                                     *)
(*  - bid/ask value 0 stands for both 0.0 and None (both are falsy in     *)
(*    `if pd.bid`);                                                        *)
(*  - percentages are exact rationals [num, den] with den > 0;             *)
(*  - the clock `now` is in seconds; one handler call reads it once.       *)
(***************************************************************************)
EXTENDS Integers, Sequences, FiniteSets, TLC

VARIABLES
    pm_prices,      \* PriceMonitor.prices: symbol -> ordered {exchange: PriceData}
    all_prices,     \* table returned by the last fetch_all_prices call
    fetch_call,     \* the last fetch_all_prices call: its symbols, what each adapter did, whether it raised
    opps,           \* list returned by the last find_arbitrage call
    arb_args,       \* arguments of the last find_arbitrage call
    now,            \* the wall clock (datetime.now()), in seconds
    managers,       \* the AlertManager instances, by key
    sink_log,       \* every call of a notification sink's send_alert, in order
    callback_log,   \* every call of a registered callback, in order
    last_send,      \* the last send_alert call and what it returned
    users,          \* UserManager.users: tenant id -> User
    saved_users,    \* users.json as last written
    previous_prices,\* "{user_id}_{symbol}" (SaaS) or symbol (bot) -> last average price
    iteration,      \* _monitoring_loop: iteration
    pc,             \* _monitoring_loop: where the monitoring thread is
    tick_users,     \* _monitoring_loop: users (the active users of this tick)
    tick_idx,       \* _monitoring_loop: position in `for user in users`
    running,        \* self.running of the service whose loop is modelled
    price_change_threshold, \* CryptoAlertBot.price_change_threshold
    price_alerts,   \* the send_price_alert calls of the last _check_price_changes
    checks_run,     \* _check_price_changes calls made on the table last fetched
    last_command    \* the last UserManager or /settings call and what it answered

pmVars == <<pm_prices, all_prices, fetch_call, opps, arb_args>>

amVars == <<now, managers, sink_log, callback_log, last_send>>

saasVars == <<users, saved_users, previous_prices, iteration, pc, tick_users, tick_idx,
              running>>

botVars == <<price_change_threshold, price_alerts, checks_run>>

cmdVars == <<last_command>>

vars == <<pmVars, amVars, saasVars, botVars, cmdVars>>

(***************************************************************************)
(* Bounds of the model                                                     *)
(***************************************************************************)
MaxPrice == 3        \* bid/ask/price levels explored: 0..MaxPrice
MaxAlerts == 2       \* alerts one AlertManager accepts in a run of SpecAM
MaxElapsed == 1800   \* seconds the clock runs in SpecAM
MaxIter == 5         \* iterations of the SaaS monitoring loop
MaxChecks == 2       \* _check_price_changes calls on one fetched table
MaxFetches == 2      \* tables the bot fetches in SpecBotCheck
MaxCallbacks == 2    \* callbacks registered on one AlertManager
MaxTicks == 121      \* ticks of the SaaS loop in SpecExpiry
MaxCommands == 2     \* UserManager and /settings calls in SpecTenants

(***************************************************************************)
(* Universe                                                                *)
(***************************************************************************)
Symbols == {"BTC/USDT", "ETH/USDT", "SOL/USDT"}

\* PriceMonitor.exchanges, in dict order (the first two of the five adapters)
ExchangeOrder == <<"binance", "coinbase">>

Exchanges == {ExchangeOrder[i] : i \in DOMAIN ExchangeOrder}

\* PriceData: the fields the detectors read
PriceData(p, b, a) == [price |-> p, bid |-> b, ask |-> a]

(***************************************************************************)
(* Rational arithmetic for percentages                                     *)
(***************************************************************************)
Rat(n, d) == [num |-> n, den |-> d]

RatGeq(x, y) == x.num * y.den >= y.num * x.den

RatEq(x, y) == x.num * y.den = y.num * x.den

RatGt(x, y) == x.num * y.den > y.num * x.den

(***************************************************************************)
(* Ordered dict {exchange: PriceData}                                      *)
(***************************************************************************)
DictKeys(d) == {d[i].ex : i \in DOMAIN d}

DictIndex(d, e) == CHOOSE i \in DOMAIN d : d[i].ex = e

DictGet(d, e) == d[DictIndex(d, e)].pd

\* d[e] = q : an existing key keeps its position, a new key is appended
DictPut(d, e, q) ==
    IF e \in DictKeys(d)
    THEN [d EXCEPT ![DictIndex(d, e)] = [ex |-> e, pd |-> q]]
    ELSE Append(d, [ex |-> e, pd |-> q])

EmptyTable == [s \in {} |-> <<>>]

\* table[s][e] is present
HasQuote(tbl, s, e) == s \in DOMAIN tbl /\ e \in DictKeys(tbl[s])

(***************************************************************************)
(* PriceMonitor.fetch_all_prices                                           *)
(***************************************************************************)
\* What one exchange adapter does in one call: it returns a dict for a subset
\* of the requested symbols (empty on failure), or raises past its boundary.
AdapterReturns(results) == [raised |-> FALSE, results |-> results]

AdapterRaises == [raised |-> TRUE, results |-> EmptyTable]

\* Mutant: the returned table starts from the cache instead of an empty dict
NewAllPricesCached(cached) == cached

\* all_prices = defaultdict(dict)
NewAllPrices(cached) == EmptyTable

\* for symbol, price_data in prices.items(): table[symbol][exchange_name] = price_data
\* (skipped as a whole when fetch_func raised)
MergeExchange(tbl, e, outcome) ==
    IF outcome.raised
    THEN tbl
    ELSE [s \in DOMAIN tbl \cup DOMAIN outcome.results |->
            IF s \in DOMAIN outcome.results
            THEN DictPut(IF s \in DOMAIN tbl THEN tbl[s] ELSE <<>>, e, outcome.results[s])
            ELSE tbl[s]]

RECURSIVE MergeFrom(_, _, _)
\* for exchange_name, fetch_func in self.exchanges.items(): ...
MergeFrom(tbl, out, i) ==
    IF i > Len(ExchangeOrder)
    THEN tbl
    ELSE MergeFrom(MergeExchange(tbl, ExchangeOrder[i], out[ExchangeOrder[i]]), out, i + 1)

\* The table fetch_all_prices returns
FetchedTable(cached, out) == MergeFrom(NewAllPrices(cached), out, 1)

\* self.prices after fetch_all_prices
CachedTable(cached, out) == MergeFrom(cached, out, 1)

\* Partial dicts symbol -> PriceData over the requested symbols
PartialResults(requested, pool) ==
    UNION {[S -> pool] : S \in SUBSET requested}

\* Every behaviour of the adapters in one call
AdapterOutcomes(requested, pool) ==
    [Exchanges -> {AdapterReturns(r) : r \in PartialResults(requested, pool)}
                  \cup {AdapterRaises}]

SeqToSet(q) == {q[i] : i \in DOMAIN q}

\* try: prices = fetch_func(symbols) ... except Exception as e: print(...)
ExchangeErrorCaught(outcome) == TRUE

\* fetch_all_prices raises iff an adapter's exception escapes its try block
FetchRaises(out) == \E e \in Exchanges : out[e].raised /\ ~ExchangeErrorCaught(out[e])

NoFetchCall == [called |-> FALSE, symbols |-> <<>>, raised |-> FALSE,
                out |-> [e \in Exchanges |-> AdapterReturns(EmptyTable)]]

NoArbCall == [called |-> FALSE, symbols |-> <<>>, min_profit_pct |-> Rat(0, 1)]

FetchAllPrices(symbols, out) ==
    /\ all_prices' = IF FetchRaises(out) THEN all_prices ELSE FetchedTable(pm_prices, out)
    /\ pm_prices' = CachedTable(pm_prices, out)
    /\ fetch_call' = [called |-> TRUE, symbols |-> symbols, raised |-> FetchRaises(out),
                      out |-> out]

(***************************************************************************)
(* PriceMonitor.find_arbitrage                                             *)
(***************************************************************************)
HasBid(r) == r.pd.bid # 0

HasAsk(r) == r.pd.ask # 0

\* Mutant: the last of the maximal elements
BestBidLast(bids) ==
    bids[CHOOSE i \in DOMAIN bids :
            \A j \in DOMAIN bids :
                \/ bids[j].pd.bid < bids[i].pd.bid
                \/ (bids[j].pd.bid = bids[i].pd.bid /\ j <= i)]

\* max(bids, key=lambda x: x[1]): the first of the maximal elements
BestBid(bids) ==
    bids[CHOOSE i \in DOMAIN bids :
            \A j \in DOMAIN bids :
                \/ bids[j].pd.bid < bids[i].pd.bid
                \/ (bids[j].pd.bid = bids[i].pd.bid /\ i <= j)]

\* Mutant: the first ask instead of the lowest
BestAskFirst(asks) == asks[1]

\* min(asks, key=lambda x: x[1]): the first of the minimal elements
BestAsk(asks) ==
    asks[CHOOSE i \in DOMAIN asks :
            \A j \in DOMAIN asks :
                \/ asks[j].pd.ask > asks[i].pd.ask
                \/ (asks[j].pd.ask = asks[i].pd.ask /\ i <= j)]

\* if sell_price > buy_price
IsSpread(sell_price, buy_price) == sell_price > buy_price

\* profit_pct = ((sell_price - buy_price) / buy_price) * 100
ProfitPct(sell_price, buy_price) == Rat((sell_price - buy_price) * 100, buy_price)

\* Mutant: any positive profit passes
MeetsMinProfitAny(profit_pct, min_profit_pct) == RatGeq(profit_pct, Rat(0, 1))

\* if profit_pct >= min_profit_pct
MeetsMinProfit(profit_pct, min_profit_pct) == RatGeq(profit_pct, min_profit_pct)

\* One pass of the loop body for `symbol`: the opportunities it appends (0 or 1)
SymbolOpps(tbl, symbol, min_profit_pct) ==
    IF symbol \notin DOMAIN tbl THEN <<>>
    ELSE LET exchange_prices == tbl[symbol] IN
    IF Len(exchange_prices) < 2 THEN <<>>
    ELSE LET bids == SelectSeq(exchange_prices, HasBid)
             asks == SelectSeq(exchange_prices, HasAsk) IN
    IF bids = <<>> \/ asks = <<>> THEN <<>>
    ELSE LET best_bid == BestBid(bids)
             best_ask == BestAsk(asks)
             buy_price == best_ask.pd.ask
             sell_price == best_bid.pd.bid IN
    IF ~IsSpread(sell_price, buy_price) THEN <<>>
    ELSE LET profit_pct == ProfitPct(sell_price, buy_price) IN
    IF ~MeetsMinProfit(profit_pct, min_profit_pct) THEN <<>>
    ELSE << [symbol |-> symbol,
             buy_exchange |-> best_ask.ex,
             sell_exchange |-> best_bid.ex,
             buy_price |-> buy_price,
             sell_price |-> sell_price,
             profit_pct |-> profit_pct,
             profit_usd |-> sell_price - buy_price] >>

RECURSIVE CollectOpps(_, _, _, _)
\* for symbol in symbols: ... opportunities.append(opp)
CollectOpps(tbl, symbols, min_profit_pct, i) ==
    IF i > Len(symbols)
    THEN <<>>
    ELSE SymbolOpps(tbl, symbols[i], min_profit_pct)
            \o CollectOpps(tbl, symbols, min_profit_pct, i + 1)

\* Mutant: x goes before its equals (an unstable sort)
InsertByProfitUnstable(sorted, x) ==
    LET before == {i \in DOMAIN sorted : RatGt(sorted[i].profit_pct, x.profit_pct)}
        k == Cardinality(before)
    IN  SubSeq(sorted, 1, k) \o <<x>> \o SubSeq(sorted, k + 1, Len(sorted))

\* Insert x into a list sorted by profit_pct descending, after its equals
InsertByProfit(sorted, x) ==
    LET before == {i \in DOMAIN sorted : RatGeq(sorted[i].profit_pct, x.profit_pct)}
        k == Cardinality(before)
    IN  SubSeq(sorted, 1, k) \o <<x>> \o SubSeq(sorted, k + 1, Len(sorted))

RECURSIVE SortedByProfit(_, _)
\* sorted(opportunities, key=lambda x: x.profit_pct, reverse=True): stable
SortedByProfit(list, n) ==
    IF n = 0 THEN <<>> ELSE InsertByProfit(SortedByProfit(list, n - 1), list[n])

FindArbitrageResult(tbl, symbols, min_profit_pct) ==
    LET opportunities == CollectOpps(tbl, symbols, min_profit_pct, 1)
    IN  SortedByProfit(opportunities, Len(opportunities))

\* find_arbitrage reads self.prices
FindArbitrage(symbols, min_profit_pct) ==
    /\ opps' = FindArbitrageResult(pm_prices, symbols, min_profit_pct)
    /\ arb_args' = [called |-> TRUE, symbols |-> symbols, min_profit_pct |-> min_profit_pct]

(***************************************************************************)
(* AlertManager                                                            *)
(***************************************************************************)
\* datetime.now().strftime('%Y%m%d') changes every 24 hours
SecondsPerDay == 86400

SecondsPerMinute == 60

\* AlertManager.__init__ default and the SaaS service's cooldown_minutes
DefaultCooldownMinutes == 15

Day(t) == t \div SecondsPerDay

\* dedup_key None or '' (both falsy)
NoKey == <<>>

\* AlertManager.__init__
NewAlertManager(telegram, discord, cooldown_minutes, callbacks) ==
    [telegram |-> telegram,                  \* self.telegram.is_configured()
     discord |-> discord,                    \* self.discord.is_configured()
     cooldown_minutes |-> cooldown_minutes,
     alert_history |-> [id \in {} |-> 0],
     sent_alerts |-> <<>>,
     callbacks |-> callbacks]                \* each "ok" or "raises"

\* key = dedup_key or f"{severity}_{int(time.time())}"
AlertKey(severity, dedup_key, t) ==
    IF dedup_key # NoKey THEN dedup_key ELSE <<severity, ToString(t)>>

\* f"{alert_type.value}_{symbol}_{key}_{datetime.now().strftime('%Y%m%d')}"
\* (the formatted string is kept as the tuple of its parts)
GenerateAlertId(alert_type, symbol, key, t) ==
    [type |-> alert_type, symbol |-> symbol, key |-> key, day |-> Day(t)]

\* Mutant: an alert exactly one cooldown old still counts as a duplicate
IsDuplicateInclusive(am, alert_id, t) ==
    /\ alert_id \in DOMAIN am.alert_history
    /\ t - am.alert_history[alert_id] <= am.cooldown_minutes * SecondsPerMinute

\* _is_duplicate
IsDuplicate(am, alert_id, t) ==
    /\ alert_id \in DOMAIN am.alert_history
    /\ t - am.alert_history[alert_id] < am.cooldown_minutes * SecondsPerMinute

\* The sinks send_alert calls for an accepted alert, in order, with the
\* delivery result the network gives each (net.telegram, net.discord)
SinkCalls(am, net) ==
    (IF am.telegram THEN <<[sink |-> "telegram", ok |-> net.telegram]>> ELSE <<>>)
    \o (IF am.discord THEN <<[sink |-> "discord", ok |-> net.discord]>> ELSE <<>>)

\* Mutant: the first callback that raises ends the loop over the callbacks
InvokedCallbacksUntilError(callbacks) ==
    {i \in DOMAIN callbacks : \A j \in 1..(i - 1) : callbacks[j] # "raises"}

\* for callback in self.callbacks: try: callback(alert) except Exception: print
\* (the positions of the callbacks invoked)
InvokedCallbacks(callbacks) == DOMAIN callbacks

\* Mutant: no console fallback
UsesConsoleNever(success, callbacks) == FALSE

\* if not success and not self.callbacks: print the alert, return True
UsesConsole(success, callbacks) == ~success /\ callbacks = <<>>

\* Mutant: a suppressed call restarts the cooldown of its id
SuppressedRefreshes(am, alert_id, t) ==
    [am EXCEPT !.alert_history = [@ EXCEPT ![alert_id] = t]]

\* if dedup_key and self._is_duplicate(alert_id): print(...); return False
Suppressed(am, alert_id, t) == am

\* Mutant: the ledger keeps the time of the first alert of an id
TrackAlertKeepFirst(am, alert, t) ==
    [am EXCEPT
        !.alert_history =
            [x \in DOMAIN am.alert_history \cup {alert.id} |->
                IF x \in DOMAIN am.alert_history THEN am.alert_history[x] ELSE t],
        !.sent_alerts = Append(am.sent_alerts, alert)]

\* self.alert_history[alert_id] = datetime.now(); self.sent_alerts.append(alert)
TrackAlert(am, alert, t) ==
    [am EXCEPT
        !.alert_history =
            [x \in DOMAIN am.alert_history \cup {alert.id} |->
                IF x = alert.id THEN t ELSE am.alert_history[x]],
        !.sent_alerts = Append(am.sent_alerts, alert)]

\* send_alert called at time t: the manager afterwards, the value returned,
\* the sink and callback calls made
SendAlert(am, alert_type, symbol, message, data, severity, dedup_key, t, net) ==
    LET key == AlertKey(severity, dedup_key, t)
        alert_id == GenerateAlertId(alert_type, symbol, key, t)
        alert == [id |-> alert_id, type |-> alert_type, symbol |-> symbol,
                  message |-> message, data |-> data, severity |-> severity,
                  timestamp |-> t]
        call == [alert_id |-> alert_id, dedup_key |-> dedup_key, data |-> data, time |-> t]
    IN  IF dedup_key # NoKey /\ IsDuplicate(am, alert_id, t)
        THEN [am |-> Suppressed(am, alert_id, t), result |-> FALSE, suppressed |-> TRUE,
              console |-> FALSE, sinks |-> <<>>, called_back |-> <<>>, call |-> call]
        ELSE LET tracked == TrackAlert(am, alert, t)
                 sinks == SinkCalls(am, net)
                 success == \E i \in DOMAIN sinks : sinks[i].ok
                 console == UsesConsole(success, am.callbacks)
                 invoked == InvokedCallbacks(am.callbacks)
             IN  [am |-> tracked,
                  result |-> IF console THEN TRUE ELSE success,
                  suppressed |-> FALSE,
                  console |-> console,
                  sinks |-> [i \in DOMAIN sinks |->
                                [sink |-> sinks[i].sink, ok |-> sinks[i].ok,
                                 alert_id |-> alert_id, time |-> t]],
                  called_back |-> [i \in 1..Cardinality(invoked) |->
                                [callback |-> CHOOSE c \in invoked :
                                                Cardinality({x \in invoked : x < c}) = i - 1,
                                 alert_id |-> alert_id, time |-> t]],
                  call |-> call]

\* Mutant: the direction of the move is part of the dedup key
PriceDedupKeyDirected(symbol, direction) == <<"price_change", symbol, direction>>

\* dedup_key=f"price_change_{symbol}"
PriceDedupKey(symbol, direction) == <<"price_change", symbol>>

\* send_price_alert
SendPriceAlert(am, symbol, current_price, change_pct, threshold_pct, t, net) ==
    LET direction == IF RatGt(change_pct, Rat(0, 1)) THEN "UP" ELSE "DOWN"
        abs_change == IF change_pct.num < 0
                      THEN Rat(0 - change_pct.num, change_pct.den) ELSE change_pct
        severity == IF RatGt(abs_change, Rat(threshold_pct.num * 2, threshold_pct.den))
                    THEN "warning" ELSE "info"
    IN  SendAlert(am, "price_change", symbol,
                  [direction |-> direction, change_pct |-> change_pct],
                  [current_price |-> current_price, change_pct |-> change_pct,
                   threshold_pct |-> threshold_pct],
                  severity, PriceDedupKey(symbol, direction), t, net)

\* send_arbitrage_alert
SendArbitrageAlert(am, symbol, buy_exchange, sell_exchange, profit_pct, profit_usd, t, net) ==
    SendAlert(am, "arbitrage", symbol,
              [buy_exchange |-> buy_exchange, sell_exchange |-> sell_exchange,
               profit_pct |-> profit_pct],
              [buy_exchange |-> buy_exchange, sell_exchange |-> sell_exchange,
               profit_pct |-> profit_pct, profit_usd |-> profit_usd],
              "critical", <<"arbitrage", symbol, buy_exchange, sell_exchange>>, t, net)

\* send_whale_alert; tx_hash '' when the caller passes none
SendWhaleAlert(am, symbol, amount, amount_usd, tx_type, from_addr, to_addr, tx_hash, t, net) ==
    LET severity == IF amount_usd > 10000000 THEN "critical" ELSE "warning"
        dedup_key == IF tx_hash # "" THEN <<"whale", tx_hash>>
                     ELSE <<"whale", from_addr, to_addr, amount>>
    IN  SendAlert(am, "whale", symbol,
                  [amount |-> amount, tx_type |-> tx_type],
                  [amount |-> amount, amount_usd |-> amount_usd, tx_type |-> tx_type,
                   from |-> from_addr, to |-> to_addr, tx_hash |-> tx_hash],
                  severity, dedup_key, t, net)

\* AlertManager.add_callback
AddCallback(am, callback) == [am EXCEPT !.callbacks = Append(@, callback)]

\* the number of alerts of the log whose field f has value v
CountWhere(sent_alerts, f, v) ==
    Cardinality({i \in DOMAIN sent_alerts : sent_alerts[i][f] = v})

\* AlertManager.get_alert_stats at time t
GetAlertStats(am, t) ==
    [total_alerts |-> Len(am.sent_alerts),
     by_type |-> [v \in {am.sent_alerts[i].type : i \in DOMAIN am.sent_alerts} |->
                    CountWhere(am.sent_alerts, "type", v)],
     by_severity |-> [v \in {am.sent_alerts[i].severity : i \in DOMAIN am.sent_alerts} |->
                    CountWhere(am.sent_alerts, "severity", v)],
     last_24h |-> Cardinality({i \in DOMAIN am.sent_alerts :
                                am.sent_alerts[i].timestamp > t - SecondsPerDay})]

\* WhaleAlertMock.get_bitcoin_whale_transactions: the sample alerts at or above
\* min_usd_value (amount is kept as the text the f-string formats it to)
WhaleSamples ==
    << [symbol |-> "BTC", amount |-> "1500.5", amount_usd |-> 105035000,
        from_address |-> "1A1zP1eP5QGefi2DMPTfTL5SLmv7DivfNa",
        to_address |-> "bc1qxy2kgdygjrsqtzq2n0yrf2493p83kkfjhx0wlh",
        transaction_type |-> "exchange_in", tx_hash |-> "abc123def456"],
       [symbol |-> "BTC", amount |-> "750.25", amount_usd |-> 52517500,
        from_address |-> "bc1qm34lsc65zpw79lxes69zkqmk6ee3ewf0j77s3h",
        to_address |-> "1BvBMSEYstWetqTFn5Au4m4GFg7xJaNVN2",
        transaction_type |-> "exchange_out", tx_hash |-> "def789ghi012"],
       [symbol |-> "BTC", amount |-> "3000.0", amount_usd |-> 210000000,
        from_address |-> "1BoatSLRHtKNngkdXEeobR76b53LETtpyT",
        to_address |-> "bc1q2gjc0l80zxd6z0w8s90j9y9h6r8z7w",
        transaction_type |-> "transfer", tx_hash |-> "ghi345jkl678"] >>

IsWhale(a, min_usd_value) == a.amount_usd >= min_usd_value

GetBitcoinWhaleTransactions(min_usd_value) ==
    SelectSeq(WhaleSamples, LAMBDA a : IsWhale(a, min_usd_value))

NoSend == [called |-> FALSE, manager |-> "", result |-> FALSE, suppressed |-> FALSE,
           console |-> FALSE,
           call |-> [alert_id |-> GenerateAlertId("", "", NoKey, 0),
                     dedup_key |-> NoKey, data |-> [note |-> ""], time |-> 0]]

\* Apply the outcome r of a send_alert call on the manager with key m
Dispatch(m, r) ==
    /\ managers' = [managers EXCEPT ![m] = r.am]
    /\ sink_log' = sink_log \o [i \in DOMAIN r.sinks |->
                        [manager |-> m, sink |-> r.sinks[i].sink, ok |-> r.sinks[i].ok,
                         alert_id |-> r.sinks[i].alert_id, time |-> r.sinks[i].time]]
    /\ callback_log' = callback_log \o [i \in DOMAIN r.called_back |->
                        [manager |-> m, callback |-> r.called_back[i].callback,
                         alert_id |-> r.called_back[i].alert_id,
                         time |-> r.called_back[i].time]]
    /\ last_send' = [called |-> TRUE, manager |-> m, result |-> r.result,
                     suppressed |-> r.suppressed, console |-> r.console, call |-> r.call]

(***************************************************************************)
(* UserManager and the SaaS service (saas_main.py)                         *)
(***************************************************************************)
Tiers == {"free", "basic", "pro", "enterprise"}

\* The watchlists of set_default_settings, restricted to Symbols
SymbolOrder == <<"BTC/USDT", "ETH/USDT", "SOL/USDT">>

\* User.set_default_settings
TierSettings(tier) ==
    CASE tier = "basic" ->
            [symbols |-> <<"BTC/USDT", "ETH/USDT", "SOL/USDT">>,
             arbitrage_threshold |-> Rat(1, 2), price_change_threshold |-> Rat(3, 1),
             whale_threshold |-> 5000000, poll_interval |-> 60]
      [] tier = "pro" ->
            [symbols |-> <<"BTC/USDT", "ETH/USDT", "SOL/USDT">>,
             arbitrage_threshold |-> Rat(3, 10), price_change_threshold |-> Rat(2, 1),
             whale_threshold |-> 1000000, poll_interval |-> 30]
      [] tier = "enterprise" ->
            [symbols |-> <<>>,
             arbitrage_threshold |-> Rat(1, 10), price_change_threshold |-> Rat(1, 1),
             whale_threshold |-> 500000, poll_interval |-> 10]
      [] OTHER ->
            [symbols |-> <<"BTC/USDT", "ETH/USDT">>,
             arbitrage_threshold |-> Rat(1, 2), price_change_threshold |-> Rat(5, 1),
             whale_threshold |-> 10000000, poll_interval |-> 300]

\* User.__init__ at time t; expires_at 0 stands for None
NewUser(telegram_chat_id, tier, t) ==
    LET d == TierSettings(tier)
    IN  [telegram_chat_id |-> telegram_chat_id, tier |-> tier, expires_at |-> 0,
         is_active |-> TRUE, symbols |-> d.symbols,
         arbitrage_threshold |-> d.arbitrage_threshold,
         price_change_threshold |-> d.price_change_threshold,
         whale_threshold |-> d.whale_threshold, poll_interval |-> d.poll_interval,
         alerts_sent |-> 0, last_activity |-> t]

\* self.users in insertion order
TenantOrder == <<"u1", "u2">>

Tenants == SeqToSet(TenantOrder)

IsActive(u) == u \in DOMAIN users /\ users[u].is_active

\* UserManager.get_active_users
GetActiveUsers == SelectSeq(TenantOrder, IsActive)

\* UserManager.increment_alert_count
IncrementAlertCount(user, t) ==
    [user EXCEPT !.alerts_sent = @ + 1, !.last_activity = t]

\* Mutant: the tier changes, the settings stay
SetDefaultSettingsKept(user, tier) == user

\* User.set_default_settings(tier)
SetDefaultSettings(user, tier) ==
    LET d == TierSettings(tier)
    IN  [user EXCEPT !.symbols = d.symbols,
                     !.arbitrage_threshold = d.arbitrage_threshold,
                     !.price_change_threshold = d.price_change_threshold,
                     !.whale_threshold = d.whale_threshold,
                     !.poll_interval = d.poll_interval]

IsExpired(user, t) == user.tier # "free" /\ user.expires_at # 0 /\ user.expires_at < t

\* UserManager.check_expired_subscriptions
CheckExpiredSubscriptions(us, t) == {u \in DOMAIN us : IsExpired(us[u], t)}

\* UserManager.deactivate_expired: the users afterwards
DeactivateExpired(us, t) ==
    [u \in DOMAIN us |->
        IF u \in CheckExpiredSubscriptions(us, t)
        THEN [SetDefaultSettings([us[u] EXCEPT !.tier = "free"], "free")
                EXCEPT !.is_active = TRUE]
        ELSE us[u]]

\* get_user / get_user_by_telegram found nobody
NoUser == ""

\* UserManager.get_user_by_telegram: the first user with the chat id
GetUserByTelegram(us, chat_id) ==
    LET found == SelectSeq(TenantOrder,
                    LAMBDA u : u \in DOMAIN us /\ us[u].telegram_chat_id = chat_id)
    IN  IF found = <<>> THEN NoUser ELSE found[1]

\* UserManager.update_user(user_id, **kwargs) at time t: setattr for the keyword
\* arguments that are attributes, last_activity = now, _save_users()
UpdateUser(us, user_id, kwargs, t) ==
    IF user_id \notin DOMAIN us
    THEN [users |-> us, result |-> FALSE, saved |-> FALSE]
    ELSE LET user == us[user_id]
             updated == [f \in DOMAIN user |->
                            IF f = "last_activity" THEN t
                            ELSE IF f \in DOMAIN kwargs THEN kwargs[f] ELSE user[f]]
         IN  [users |-> [us EXCEPT ![user_id] = updated], result |-> TRUE, saved |-> TRUE]

\* UserManager.upgrade_tier(user_id, new_tier, duration_days) at time t
UpgradeTier(us, user_id, new_tier, duration_days, t) ==
    IF user_id \notin DOMAIN us
    THEN [users |-> us, result |-> FALSE, saved |-> FALSE]
    ELSE [users |-> [us EXCEPT ![user_id] =
                        [SetDefaultSettings([@ EXCEPT !.tier = new_tier], new_tier)
                            EXCEPT !.expires_at = t + duration_days * SecondsPerDay]],
          result |-> TRUE, saved |-> TRUE]

\* Mutant: one alert manager for every tenant
AlertManagerKeyShared(user_id) == "shared"

\* self.user_alert_managers[user.user_id]
AlertManagerKey(user_id) == user_id

\* os.getenv('TELEGRAM_BOT_TOKEN') is set: the service talks to its bot
TelegramTokenSet == TRUE

\* os.getenv('DISCORD_WEBHOOK_URL') is not set in the deployment modelled
DiscordWebhookSet == FALSE

\* _get_or_create_alert_manager
GetOrCreateAlertManager(ms, user_id, user) ==
    IF AlertManagerKey(user_id) \in DOMAIN ms
    THEN ms[AlertManagerKey(user_id)]
    ELSE NewAlertManager(TelegramTokenSet /\ user.telegram_chat_id, DiscordWebhookSet,
                         DefaultCooldownMinutes, <<>>)

\* PriceMonitor.__init__ defines prices, exchanges and session; it defines no
\* previous_prices, so self.price_monitor.previous_prices raises AttributeError
PriceMonitorHasPreviousPrices == FALSE

\* What one tenant's checks have done so far: the tenant's manager and User,
\* the sink calls made, the last send_alert call, the previous-price dict,
\* and whether an exception is propagating
NewContext(am, user) ==
    [am |-> am, user |-> user, sinks |-> <<>>, last |-> last_send,
     prev |-> previous_prices, raised |-> FALSE]

\* alert_manager.send_*_alert(...) followed by increment_alert_count(user_id)
SendAndCount(ctx, m, r, t) ==
    [ctx EXCEPT
        !.am = r.am,
        !.user = IncrementAlertCount(ctx.user, t),
        !.sinks = @ \o [i \in DOMAIN r.sinks |->
                        [manager |-> m, sink |-> r.sinks[i].sink, ok |-> r.sinks[i].ok,
                         alert_id |-> r.sinks[i].alert_id, time |-> r.sinks[i].time]],
        !.last = [called |-> TRUE, manager |-> m, result |-> r.result,
                  suppressed |-> r.suppressed, console |-> r.console, call |-> r.call]]

RECURSIVE SumPrices(_, _)
SumPrices(exchange_data, n) ==
    IF n = 0 THEN 0 ELSE exchange_data[n].pd.price + SumPrices(exchange_data, n - 1)

\* avg_price = sum(d.price for d in exchange_data.values()) / len(exchange_data)
AvgPrice(exchange_data) == Rat(SumPrices(exchange_data, Len(exchange_data)), Len(exchange_data))

\* change_pct = ((avg_price - previous_price) / previous_price) * 100
ChangePct(avg_price, previous_price) ==
    Rat((avg_price.num * previous_price.den - previous_price.num * avg_price.den) * 100,
        previous_price.num * avg_price.den)

RatAbs(r) == IF r.num < 0 THEN Rat(0 - r.num, r.den) ELSE r

\* Mutant: the signed change is compared, so a fall never reaches the threshold
ReachesThresholdSigned(change_pct, threshold) == RatGeq(change_pct, threshold)

\* if abs(change_pct) >= price_change_threshold
ReachesThreshold(change_pct, threshold) == RatGeq(RatAbs(change_pct), threshold)

PreviousKey(user_id, symbol) == <<user_id, symbol>>

\* _check_price_changes_for_user: one pass of the loop body
PriceChangeStep(ctx, user_id, symbol, prices, t, net) ==
    IF ctx.raised \/ symbol \notin DOMAIN prices THEN ctx
    ELSE IF symbol \notin SeqToSet(ctx.user.symbols) THEN ctx
    ELSE IF prices[symbol] = <<>> THEN ctx
    ELSE IF ~PriceMonitorHasPreviousPrices THEN [ctx EXCEPT !.raised = TRUE]
    ELSE LET avg_price == AvgPrice(prices[symbol])
             previous_key == PreviousKey(user_id, symbol)
             previous_price == IF previous_key \in DOMAIN ctx.prev
                               THEN ctx.prev[previous_key] ELSE Rat(0, 1)
             alerted ==
                IF previous_price.num = 0 THEN ctx
                ELSE LET change_pct == ChangePct(avg_price, previous_price) IN
                     IF ReachesThreshold(change_pct, ctx.user.price_change_threshold)
                     THEN SendAndCount(ctx, AlertManagerKey(user_id),
                            SendPriceAlert(ctx.am, symbol, avg_price, change_pct,
                                           ctx.user.price_change_threshold, t, net), t)
                     ELSE ctx
         IN  [alerted EXCEPT !.prev =
                [k \in DOMAIN ctx.prev \cup {previous_key} |->
                    IF k = previous_key THEN avg_price ELSE ctx.prev[k]]]

RECURSIVE CheckPriceChangesFrom(_, _, _, _, _, _)
\* for symbol, exchange_data in prices.items(): ...
CheckPriceChangesFrom(ctx, user_id, prices, i, t, net) ==
    IF i > Len(SymbolOrder) THEN ctx
    ELSE CheckPriceChangesFrom(PriceChangeStep(ctx, user_id, SymbolOrder[i], prices, t, net),
                               user_id, prices, i + 1, t, net)

\* _check_price_changes_for_user
CheckPriceChangesForUser(ctx, user_id, prices, t, net) ==
    CheckPriceChangesFrom(ctx, user_id, prices, 1, t, net)

RECURSIVE SendOpportunities(_, _, _, _, _, _)
\* for opp in opportunities: send_arbitrage_alert(...); increment_alert_count(...)
SendOpportunities(ctx, user_id, opportunities, i, t, net) ==
    IF i > Len(opportunities) THEN ctx
    ELSE LET opp == opportunities[i]
             r == SendArbitrageAlert(ctx.am, opp.symbol, opp.buy_exchange, opp.sell_exchange,
                                     opp.profit_pct, opp.profit_usd, t, net)
         IN  SendOpportunities(SendAndCount(ctx, AlertManagerKey(user_id), r, t),
                               user_id, opportunities, i + 1, t, net)

\* _check_arbitrage_for_user runs find_arbitrage unless the tenant is FREE
ChecksArbitrage(user) == user.tier # "free"

\* _check_arbitrage_for_user
CheckArbitrageForUser(ctx, user_id, cached, t, net) ==
    IF ctx.raised \/ ~ChecksArbitrage(ctx.user) THEN ctx
    ELSE SendOpportunities(ctx, user_id,
            FindArbitrageResult(cached, ctx.user.symbols, ctx.user.arbitrage_threshold),
            1, t, net)

\* if iteration % 5 != 0: return
WhalePeriod == 5

\* _check_whales_for_user gets past its two early returns
ChecksWhales(user, iter) ==
    /\ user.tier \notin {"free", "basic"}
    /\ iter % WhalePeriod = 0

RECURSIVE SendWhales(_, _, _, _, _, _)
\* for alert in alerts: send_whale_alert(...) without tx_hash; increment_alert_count(...)
SendWhales(ctx, user_id, alerts, i, t, net) ==
    IF i > Len(alerts) THEN ctx
    ELSE LET a == alerts[i]
             r == SendWhaleAlert(ctx.am, a.symbol, a.amount, a.amount_usd,
                                 a.transaction_type, a.from_address, a.to_address, "", t, net)
         IN  SendWhales(SendAndCount(ctx, AlertManagerKey(user_id), r, t),
                        user_id, alerts, i + 1, t, net)

\* _check_whales_for_user
CheckWhalesForUser(ctx, user_id, iter, t, net) ==
    IF ctx.raised \/ ~ChecksWhales(ctx.user, iter) THEN ctx
    ELSE SendWhales(ctx, user_id, GetBitcoinWhaleTransactions(ctx.user.whale_threshold),
                    1, t, net)

\* Mutant: the symbols of the first active tenant only
AllSymbolsOfFirst(active) == IF active = <<>> THEN <<>> ELSE users[active[1]].symbols

\* all_symbols = list(set of every active user's symbols)
AllSymbols(active) ==
    SelectSeq(SymbolOrder,
              LAMBDA s : \E i \in DOMAIN active : s \in SeqToSet(users[active[i]].symbols))

\* if iteration % 10 == 0: save_all()
SavePeriod == 10

\* if iteration % 120 == 0: deactivate_expired()
ExpiryPeriod == 120

\* time.sleep(30)
SleepSeconds == 30

\* time.sleep(5) in the except branch
ErrorSleepSeconds == 5

\* _monitoring_loop, top of the try block: iteration += 1, get_active_users,
\* and with active users one fetch_all_prices for the union of their symbols
TickBeginUntil(out, last) ==
    /\ pc = "idle"
    /\ running
    /\ iteration < last
    /\ iteration' = iteration + 1
    /\ tick_users' = GetActiveUsers
    /\ IF GetActiveUsers # <<>>
       THEN /\ FetchAllPrices(AllSymbols(GetActiveUsers), out)
            /\ pc' = "users"
            /\ tick_idx' = 1
       ELSE /\ UNCHANGED <<all_prices, pm_prices, fetch_call>>
            /\ pc' = "end"
            /\ tick_idx' = 0
    /\ UNCHANGED <<opps, arb_args, amVars, users, saved_users, previous_prices, running>>
    /\ UNCHANGED botVars
    /\ UNCHANGED cmdVars

\* the tick, in a run of at most MaxIter ticks
TickBegin(out) == TickBeginUntil(out, MaxIter)

\* _monitoring_loop, one pass of `for user in users`: the three checks for the
\* tenant at tick_idx; an exception leaves the loop for the except branch
ProcessUser(net) ==
    /\ pc = "users"
    /\ LET user_id == tick_users[tick_idx]
           user == users[user_id]
           m == AlertManagerKey(user_id)
           c0 == NewContext(GetOrCreateAlertManager(managers, user_id, user), user)
           c1 == CheckPriceChangesForUser(c0, user_id, all_prices, now, net)
           c2 == CheckArbitrageForUser(c1, user_id, pm_prices, now, net)
           c3 == CheckWhalesForUser(c2, user_id, iteration, now, net)
       IN  /\ managers' = [k \in DOMAIN managers \cup {m} |->
                              IF k = m THEN c3.am ELSE managers[k]]
           /\ users' = [users EXCEPT ![user_id] = c3.user]
           /\ sink_log' = sink_log \o c3.sinks
           /\ last_send' = c3.last
           /\ previous_prices' = c3.prev
           /\ IF ~c1.raised /\ ChecksArbitrage(user)
              THEN FindArbitrage(user.symbols, user.arbitrage_threshold)
              ELSE UNCHANGED <<opps, arb_args>>
           /\ pc' = IF c3.raised THEN "except"
                    ELSE IF tick_idx = Len(tick_users) THEN "end" ELSE "users"
           /\ tick_idx' = IF c3.raised \/ tick_idx = Len(tick_users)
                          THEN tick_idx ELSE tick_idx + 1
    /\ UNCHANGED <<pm_prices, all_prices, fetch_call, now, callback_log,
                   saved_users, iteration, tick_users, running>>
    /\ UNCHANGED botVars
    /\ UNCHANGED cmdVars

\* _monitoring_loop, after the for loop: periodic save, periodic expiry check,
\* time.sleep(30)
TickEnd ==
    /\ pc = "end"
    /\ LET saves == tick_users # <<>> /\ iteration % SavePeriod = 0
           expires == iteration % ExpiryPeriod = 0
           expired == IF expires THEN CheckExpiredSubscriptions(users, now) ELSE {}
       IN  /\ users' = IF expires THEN DeactivateExpired(users, now) ELSE users
           /\ saved_users' = IF expired # {} THEN users'
                             ELSE IF saves THEN users ELSE saved_users
    /\ now' = now + SleepSeconds
    /\ pc' = "idle"
    /\ UNCHANGED <<pmVars, managers, sink_log, callback_log, last_send,
                   previous_prices, iteration, tick_users, tick_idx, running>>
    /\ UNCHANGED botVars
    /\ UNCHANGED cmdVars

\* Mutant: the except branch leaves the loop
ExceptLeavesLoop == "done"

\* the except branch is inside `while self.running`: after it the loop
\* condition is checked again
ExceptContinuesAt == "idle"

\* _monitoring_loop, except Exception: print, time.sleep(5)
TickExcept ==
    /\ pc = "except"
    /\ now' = now + ErrorSleepSeconds
    /\ pc' = ExceptContinuesAt
    /\ UNCHANGED <<pmVars, managers, sink_log, callback_log, last_send,
                   users, saved_users, previous_prices, iteration, tick_users, tick_idx,
                   running>>
    /\ UNCHANGED botVars
    /\ UNCHANGED cmdVars

(***************************************************************************)
(* TelegramBotHandler (telegram_handler.py)                                *)
(***************************************************************************)
\* the words of a /settings message that float() accepts
FloatTokens == {"2.0", "0.2", "7"}

\* Mutant: a word that is no number is read as 0
ParseFloatLenient(token) ==
    CASE token = "2.0" -> [ok |-> TRUE, value |-> Rat(2, 1)]
      [] token = "0.2" -> [ok |-> TRUE, value |-> Rat(1, 5)]
      [] token = "7" -> [ok |-> TRUE, value |-> Rat(7, 1)]
      [] OTHER -> [ok |-> TRUE, value |-> Rat(0, 1)]

\* float(value): the number, or ValueError
ParseFloat(token) ==
    CASE token = "2.0" -> [ok |-> TRUE, value |-> Rat(2, 1)]
      [] token = "0.2" -> [ok |-> TRUE, value |-> Rat(1, 5)]
      [] token = "7" -> [ok |-> TRUE, value |-> Rat(7, 1)]
      [] OTHER -> [ok |-> FALSE, value |-> Rat(0, 1)]

\* the setting names of handle_settings and the attribute each one updates
SettingAttribute(setting) ==
    CASE setting = "threshold" -> "price_change_threshold"
      [] setting = "arbitrage" -> "arbitrage_threshold"
      [] OTHER -> ""

\* TelegramBotHandler.handle_settings(chat_id, args) at time t; parts is
\* args.split(), empty when args is None or blank
HandleSettings(us, chat_id, parts, t) ==
    LET user_id == GetUserByTelegram(us, chat_id)
        same(reply) == [users |-> us, saved |-> FALSE, reply |-> reply]
    IN  IF user_id = NoUser THEN same("no_account")
        ELSE IF parts = <<>> THEN same("settings")
        ELSE IF Len(parts) >= 2
        THEN LET setting == parts[1]
                 value == ParseFloat(parts[2])
             IN  IF SettingAttribute(setting) = "" THEN same("usage")
                 ELSE IF ~value.ok THEN same("invalid_value")
                 ELSE LET r == UpdateUser(us, user_id,
                                    [f \in {SettingAttribute(setting)} |-> value.value], t)
                      IN  [users |-> r.users, saved |-> r.saved,
                           reply |-> setting \o "_updated"]
        ELSE same("usage")

(***************************************************************************)
(* CryptoAlertBot (bot.py)                                                 *)
(***************************************************************************)
\* the key of CryptoAlertBot.alert_manager among the managers
Bot == "bot"

\* What _check_price_changes has done so far: the bot's manager, its
\* previous_prices, the send_price_alert calls made, the sink calls made, the
\* last send_alert call, and whether an exception is propagating
NewBotContext(am) ==
    [am |-> am, prev |-> previous_prices, alerts |-> <<>>, sinks |-> <<>>,
     last |-> last_send, raised |-> FALSE]

\* self.alert_manager.send_price_alert(symbol=..., current_price=avg_price,
\*     change_pct=change_pct, threshold_pct=self.price_change_threshold)
BotSendPriceAlert(ctx, symbol, avg_price, change_pct, threshold, t, net) ==
    LET r == SendPriceAlert(ctx.am, symbol, avg_price, change_pct, threshold, t, net)
    IN  [ctx EXCEPT
            !.am = r.am,
            !.alerts = Append(@, [symbol |-> symbol, current_price |-> avg_price,
                                  change_pct |-> change_pct]),
            !.sinks = @ \o [i \in DOMAIN r.sinks |->
                        [manager |-> Bot, sink |-> r.sinks[i].sink, ok |-> r.sinks[i].ok,
                         alert_id |-> r.sinks[i].alert_id, time |-> r.sinks[i].time]],
            !.last = [called |-> TRUE, manager |-> Bot, result |-> r.result,
                      suppressed |-> r.suppressed, console |-> r.console, call |-> r.call]]

\* _check_price_changes: one pass of the loop body; old_price 0 makes the
\* division raise ZeroDivisionError
BotPriceChangeStep(ctx, symbol, prices, threshold, t, net) ==
    IF ctx.raised \/ symbol \notin DOMAIN prices THEN ctx
    ELSE IF prices[symbol] = <<>> THEN ctx
    ELSE LET avg_price == AvgPrice(prices[symbol])
             checked ==
                IF symbol \notin DOMAIN ctx.prev THEN ctx
                ELSE LET old_price == ctx.prev[symbol] IN
                     IF old_price.num = 0 THEN [ctx EXCEPT !.raised = TRUE]
                     ELSE LET change_pct == ChangePct(avg_price, old_price) IN
                          IF ReachesThreshold(change_pct, threshold)
                          THEN BotSendPriceAlert(ctx, symbol, avg_price, change_pct,
                                                 threshold, t, net)
                          ELSE ctx
         IN  IF checked.raised THEN checked
             ELSE [checked EXCEPT !.prev =
                    [k \in DOMAIN ctx.prev \cup {symbol} |->
                        IF k = symbol THEN avg_price ELSE ctx.prev[k]]]

RECURSIVE BotCheckPriceChangesFrom(_, _, _, _, _, _)
\* for symbol, exchange_data in prices.items(): ...
BotCheckPriceChangesFrom(ctx, prices, threshold, i, t, net) ==
    IF i > Len(SymbolOrder) THEN ctx
    ELSE BotCheckPriceChangesFrom(
            BotPriceChangeStep(ctx, SymbolOrder[i], prices, threshold, t, net),
            prices, threshold, i + 1, t, net)

\* CryptoAlertBot._check_price_changes(prices)
BotCheckPriceChanges(ctx, prices, threshold, t, net) ==
    BotCheckPriceChangesFrom(ctx, prices, threshold, 1, t, net)

\* the outcome r of a send_*_alert call made by the bot
BotSent(ctx, r) ==
    [ctx EXCEPT
        !.am = r.am,
        !.sinks = @ \o [i \in DOMAIN r.sinks |->
                    [manager |-> Bot, sink |-> r.sinks[i].sink, ok |-> r.sinks[i].ok,
                     alert_id |-> r.sinks[i].alert_id, time |-> r.sinks[i].time]],
        !.last = [called |-> TRUE, manager |-> Bot, result |-> r.result,
                  suppressed |-> r.suppressed, console |-> r.console, call |-> r.call]]

RECURSIVE BotSendOpportunities(_, _, _, _, _)
\* CryptoAlertBot._check_arbitrage: for opp in opportunities: send_arbitrage_alert(...)
BotSendOpportunities(ctx, opportunities, i, t, net) ==
    IF i > Len(opportunities) THEN ctx
    ELSE LET opp == opportunities[i]
         IN  BotSendOpportunities(
                BotSent(ctx, SendArbitrageAlert(ctx.am, opp.symbol, opp.buy_exchange,
                                                opp.sell_exchange, opp.profit_pct,
                                                opp.profit_usd, t, net)),
                opportunities, i + 1, t, net)

\* CryptoAlertBot._check_arbitrage
BotCheckArbitrage(ctx, cached, symbols, arbitrage_threshold, t, net) ==
    IF ctx.raised THEN ctx
    ELSE BotSendOpportunities(ctx, FindArbitrageResult(cached, symbols, arbitrage_threshold),
                              1, t, net)

RECURSIVE BotSendWhales(_, _, _, _, _)
\* CryptoAlertBot._check_whale_movements: send_whale_alert(...) without tx_hash
BotSendWhales(ctx, alerts, i, t, net) ==
    IF i > Len(alerts) THEN ctx
    ELSE LET a == alerts[i]
         IN  BotSendWhales(
                BotSent(ctx, SendWhaleAlert(ctx.am, a.symbol, a.amount, a.amount_usd,
                                            a.transaction_type, a.from_address,
                                            a.to_address, "", t, net)),
                alerts, i + 1, t, net)

\* config 'whale_threshold' default
BotWhaleThreshold == 1000000

\* if iteration % 5 == 0: self._check_whale_movements()
BotCheckWhaleMovements(ctx, iter, t, net) ==
    IF ctx.raised \/ iter % WhalePeriod # 0 THEN ctx
    ELSE BotSendWhales(ctx, GetBitcoinWhaleTransactions(BotWhaleThreshold), 1, t, net)

\* config 'symbols' default, restricted to Symbols
BotSymbols == <<"BTC/USDT", "ETH/USDT", "SOL/USDT">>

\* config 'arbitrage_threshold' default 0.5
BotArbitrageThreshold == Rat(1, 2)

\* config 'poll_interval' default
BotPollInterval == 30

\* CryptoAlertBot._monitoring_loop: `while self.running` is true and the try
\* block runs up to time.sleep, or up to the exception it raises
BotCycle(out, net) ==
    /\ pc = "bot_idle"
    /\ running
    /\ iteration < MaxIter
    /\ iteration' = iteration + 1
    /\ FetchAllPrices(BotSymbols, out)
    /\ LET c1 == BotCheckPriceChanges(NewBotContext(managers[Bot]), all_prices',
                                      price_change_threshold, now, net)
           c2 == BotCheckArbitrage(c1, pm_prices', BotSymbols, BotArbitrageThreshold, now, net)
           c3 == BotCheckWhaleMovements(c2, iteration', now, net)
       IN  /\ managers' = [managers EXCEPT ![Bot] = c3.am]
           /\ previous_prices' = c3.prev
           /\ price_alerts' = c3.alerts
           /\ sink_log' = sink_log \o c3.sinks
           /\ last_send' = c3.last
           /\ IF c1.raised
              THEN UNCHANGED <<opps, arb_args>>
              ELSE /\ opps' = FindArbitrageResult(pm_prices', BotSymbols, BotArbitrageThreshold)
                   /\ arb_args' = [called |-> TRUE, symbols |-> BotSymbols,
                                   min_profit_pct |-> BotArbitrageThreshold]
           /\ pc' = IF c3.raised THEN "bot_except" ELSE "bot_sleep"
    /\ checks_run' = 1
    /\ UNCHANGED <<now, callback_log, users, saved_users, tick_users, tick_idx, running,
                   price_change_threshold>>
    /\ UNCHANGED cmdVars

\* time.sleep(self.config.get('poll_interval', 30))
BotSleep ==
    /\ pc = "bot_sleep"
    /\ now' = now + BotPollInterval
    /\ pc' = "bot_idle"
    /\ UNCHANGED <<pmVars, managers, sink_log, callback_log, last_send, users, saved_users,
                   previous_prices, iteration, tick_users, tick_idx, running>>
    /\ UNCHANGED botVars
    /\ UNCHANGED cmdVars

\* except Exception: print, time.sleep(5)
BotExcept ==
    /\ pc = "bot_except"
    /\ now' = now + ErrorSleepSeconds
    /\ pc' = "bot_idle"
    /\ UNCHANGED <<pmVars, managers, sink_log, callback_log, last_send, users, saved_users,
                   previous_prices, iteration, tick_users, tick_idx, running>>
    /\ UNCHANGED botVars
    /\ UNCHANGED cmdVars

\* `while self.running` is false: _monitoring_loop returns
BotLoopExit ==
    /\ pc = "bot_idle"
    /\ ~running
    /\ pc' = "bot_done"
    /\ UNCHANGED <<pmVars, amVars, users, saved_users, previous_prices, iteration,
                   tick_users, tick_idx, running>>
    /\ UNCHANGED botVars
    /\ UNCHANGED cmdVars

\* CryptoAlertBot.stop: self.running = False (the join and the final stats
\* change no state)
BotStop ==
    /\ running
    /\ pc \in {"bot_idle", "bot_sleep", "bot_except"}
    /\ running' = FALSE
    /\ UNCHANGED <<pmVars, amVars, users, saved_users, previous_prices, iteration, pc,
                   tick_users, tick_idx>>
    /\ UNCHANGED botVars
    /\ UNCHANGED cmdVars

\* `while self.running` is false: _monitoring_loop returns
LoopExit ==
    /\ pc = "idle"
    /\ ~running
    /\ pc' = "done"
    /\ UNCHANGED <<pmVars, amVars, users, saved_users, previous_prices, iteration,
                   tick_users, tick_idx, running>>
    /\ UNCHANGED botVars
    /\ UNCHANGED cmdVars

\* SaaSService.stop: self.running = False, the threads are joined for at most
\* 5 s each, then user_manager.save_all()
Stop ==
    /\ running
    /\ pc \in {"idle", "users", "end", "except"}
    /\ running' = FALSE
    /\ saved_users' = users
    /\ UNCHANGED <<pmVars, amVars, users, previous_prices, iteration, pc,
                   tick_users, tick_idx>>
    /\ UNCHANGED botVars
    /\ UNCHANGED cmdVars

\* No SaaS service exists
InitIdleSaaS ==
    /\ users = [u \in {} |-> 0]
    /\ saved_users = [u \in {} |-> 0]
    /\ previous_prices = [k \in {} |-> 0]
    /\ iteration = 0
    /\ pc = "none"
    /\ tick_users = <<>>
    /\ tick_idx = 0
    /\ running = FALSE

\* No CryptoAlertBot exists
InitIdleBot ==
    /\ price_change_threshold = Rat(0, 1)
    /\ price_alerts = <<>>
    /\ checks_run = 0

\* No command has been handled
NoCommand == [n |-> 0, name |-> "", chat_id |-> "", args |-> <<>>, reply |-> ""]

InitIdleCmd == last_command = NoCommand

\* No AlertManager exists
InitIdleAM ==
    /\ now = 0
    /\ managers = [m \in {} |-> 0]
    /\ sink_log = <<>>
    /\ callback_log = <<>>
    /\ last_send = NoSend

(***************************************************************************)
(* Specification SpecArb: find_arbitrage on every quote table of the       *)
(* bounded universe                                                        *)
(***************************************************************************)
ArbSymbols == {"BTC/USDT", "ETH/USDT"}

ArbQuotes == {PriceData(1, b, a) : b \in 0..MaxPrice, a \in 0..MaxPrice}

\* dicts {exchange: PriceData} over the exchanges, in the adapters' order
ArbDicts ==
    {<<>>}
    \cup {<<[ex |-> e, pd |-> q]>> : e \in Exchanges, q \in ArbQuotes}
    \cup {<<[ex |-> ExchangeOrder[1], pd |-> q1], [ex |-> ExchangeOrder[2], pd |-> q2]>> :
            q1 \in ArbQuotes, q2 \in ArbQuotes}

ArbSymbolLists ==
    {<<"BTC/USDT">>, <<"BTC/USDT", "ETH/USDT">>, <<"ETH/USDT", "BTC/USDT">>,
     <<"BTC/USDT", "BTC/USDT">>}

Thresholds == {Rat(1, 2), Rat(50, 1), Rat(150, 1)}

InitArb ==
    /\ \E f \in [ArbSymbols -> ArbDicts] :
          pm_prices = [s \in {x \in ArbSymbols : f[x] # <<>>} |-> f[s]]
    /\ all_prices = EmptyTable
    /\ fetch_call = NoFetchCall
    /\ opps = <<>>
    /\ arb_args = NoArbCall
    /\ InitIdleAM
    /\ InitIdleSaaS
    /\ InitIdleBot
    /\ InitIdleCmd

\* one find_arbitrage call per table
ArbFind ==
    /\ ~arb_args.called
    /\ \E symbols \in ArbSymbolLists, t \in Thresholds : FindArbitrage(symbols, t)
    /\ UNCHANGED <<pm_prices, all_prices, fetch_call>>
    /\ UNCHANGED amVars
    /\ UNCHANGED saasVars
    /\ UNCHANGED botVars
    /\ UNCHANGED cmdVars

NextArb == ArbFind

SpecArb == InitArb /\ [][NextArb]_vars

(***************************************************************************)
(* Specification SpecPM: polling cycles (fetch_all_prices with any subset  *)
(* of the adapters failing) followed by find_arbitrage                     *)
(***************************************************************************)
PMSymbolList == <<"BTC/USDT", "ETH/USDT">>

\* quotes the exchanges return in this specification
PMQuotes == {PriceData(1, 1, 1), PriceData(2, 2, 2)}

InitPM ==
    /\ pm_prices = EmptyTable
    /\ all_prices = EmptyTable
    /\ fetch_call = NoFetchCall
    /\ opps = <<>>
    /\ arb_args = NoArbCall
    /\ InitIdleAM
    /\ InitIdleSaaS
    /\ InitIdleBot
    /\ InitIdleCmd

\* a polling cycle; the result of an earlier find_arbitrage call is dropped
PMFetch ==
    /\ \E out \in AdapterOutcomes(SeqToSet(PMSymbolList), PMQuotes) :
          FetchAllPrices(PMSymbolList, out)
    /\ opps' = <<>>
    /\ arb_args' = NoArbCall
    /\ UNCHANGED amVars
    /\ UNCHANGED saasVars
    /\ UNCHANGED botVars
    /\ UNCHANGED cmdVars

PMFind ==
    /\ fetch_call.called
    /\ FindArbitrage(PMSymbolList, Rat(1, 2))
    /\ UNCHANGED <<pm_prices, all_prices, fetch_call>>
    /\ UNCHANGED amVars
    /\ UNCHANGED saasVars
    /\ UNCHANGED botVars
    /\ UNCHANGED cmdVars

NextPM == PMFetch \/ PMFind

SpecPM == InitPM /\ [][NextPM]_vars

(***************************************************************************)
(* Specification SpecAM: one AlertManager driven through send_alert and    *)
(* send_whale_alert while the clock runs across midnight                   *)
(***************************************************************************)
\* 20 minutes before the calendar day changes
StartTime == SecondsPerDay - 1200

ClockSteps == {300, 600}

CooldownChoices == {10, DefaultCooldownMinutes}

\* both sinks deliver, or both fail
AMNetworks == {[telegram |-> b, discord |-> b] : b \in BOOLEAN}

InitAM ==
    /\ now = StartTime
    /\ \E c \in CooldownChoices :
          managers = [m \in {Bot} |-> NewAlertManager(TRUE, TRUE, c, <<>>)]
    /\ sink_log = <<>>
    /\ callback_log = <<>>
    /\ last_send = NoSend
    /\ pm_prices = EmptyTable
    /\ all_prices = EmptyTable
    /\ fetch_call = NoFetchCall
    /\ opps = <<>>
    /\ arb_args = NoArbCall
    /\ InitIdleSaaS
    /\ InitIdleBot
    /\ InitIdleCmd

\* time passes
AMTick ==
    /\ \E d \in ClockSteps :
          /\ now + d <= StartTime + MaxElapsed
          /\ now' = now + d
    /\ UNCHANGED <<managers, sink_log, callback_log, last_send>>
    /\ UNCHANGED pmVars
    /\ UNCHANGED saasVars
    /\ UNCHANGED botVars
    /\ UNCHANGED cmdVars

\* send_alert(alert_type, symbol, message, data, severity, dedup_key)
AMSendAlert ==
    /\ Len(managers[Bot].sent_alerts) < MaxAlerts
    /\ \E severity \in {"info"}, dedup_key \in {NoKey, <<"k1">>},
          net \in AMNetworks :
          Dispatch(Bot, SendAlert(managers[Bot], "price_target", "BTC/USDT", "text",
                                  [note |-> "n"], severity, dedup_key, now, net))
    /\ UNCHANGED now
    /\ UNCHANGED pmVars
    /\ UNCHANGED saasVars
    /\ UNCHANGED botVars
    /\ UNCHANGED cmdVars

\* send_whale_alert for a transaction of the tracker, with or without its hash
AMSendWhaleAlert ==
    /\ Len(managers[Bot].sent_alerts) < MaxAlerts
    /\ \E i \in 1..2, with_hash \in BOOLEAN, net \in AMNetworks :
          LET a == WhaleSamples[i] IN
          Dispatch(Bot, SendWhaleAlert(managers[Bot], a.symbol, a.amount, a.amount_usd,
                                       a.transaction_type, a.from_address, a.to_address,
                                       IF with_hash THEN a.tx_hash ELSE "", now, net))
    /\ UNCHANGED now
    /\ UNCHANGED pmVars
    /\ UNCHANGED saasVars
    /\ UNCHANGED botVars
    /\ UNCHANGED cmdVars

NextAM == AMTick \/ AMSendAlert \/ AMSendWhaleAlert

SpecAM == InitAM /\ [][NextAM]_vars

(***************************************************************************)
(* Specification SpecSaaS: the SaaS monitoring loop over two tenants       *)
(***************************************************************************)
SaaSQuotes == {PriceData(1, 1, 1), PriceData(2, 2, 2)}

\* An adapter in one tick: it fails for every symbol (returns {}), or quotes
\* every requested symbol at one level
SaaSAdapterResults(requested) ==
    {EmptyTable} \cup {[s \in requested |-> q] : q \in SaaSQuotes}

SaaSAdapterOutcomes(requested) ==
    [Exchanges -> {AdapterReturns(r) : r \in SaaSAdapterResults(requested)}]

InitSaaS ==
    /\ pm_prices = EmptyTable
    /\ all_prices = EmptyTable
    /\ fetch_call = NoFetchCall
    /\ opps = <<>>
    /\ arb_args = NoArbCall
    /\ now = StartTime
    /\ managers = [m \in {} |-> 0]
    /\ sink_log = <<>>
    /\ callback_log = <<>>
    /\ last_send = NoSend
    /\ \E tier \in [Tenants -> Tiers] :
          users = [u \in Tenants |-> NewUser(TRUE, tier[u], StartTime)]
    /\ saved_users = users
    /\ previous_prices = [k \in {} |-> Rat(0, 1)]
    /\ iteration = 0
    /\ pc = "idle"
    /\ tick_users = <<>>
    /\ tick_idx = 0
    /\ running = TRUE
    /\ InitIdleBot
    /\ InitIdleCmd

SaaSTickBegin ==
    \E out \in SaaSAdapterOutcomes(SeqToSet(AllSymbols(GetActiveUsers))) : TickBegin(out)

SaaSProcessUser == \E net \in AMNetworks : ProcessUser(net)

NextSaaS == SaaSTickBegin \/ SaaSProcessUser \/ TickEnd \/ TickExcept

SpecSaaS == InitSaaS /\ [][NextSaaS]_vars

(***************************************************************************)
(* Specification SpecBotCheck: CryptoAlertBot fetches tables and runs      *)
(* _check_price_changes on them, once or several times per table           *)
(***************************************************************************)
\* price levels binance quotes for BTC/USDT; coinbase quotes 100 or nothing
BotPrices == {97, 98, 100, 103}

BotPricesOf(e) == IF e = ExchangeOrder[1] THEN BotPrices ELSE {100}

\* price levels quoted for ETH/USDT, by binance only
BotPricesEth == {100, 103}

\* PRICE_CHANGE_THRESHOLD / config 'price_change_threshold': any float
BotThresholds == {Rat(0, 1), Rat(2, 1), Rat(3, 1)}

BotAdapterResults(e) ==
    LET btc == {EmptyTable} \cup {[s \in {"BTC/USDT"} |-> PriceData(p, p, p)] : p \in BotPricesOf(e)}
        eth == {EmptyTable} \cup
               (IF e = ExchangeOrder[1]
                THEN {[s \in {"ETH/USDT"} |-> PriceData(p, p, p)] : p \in BotPricesEth}
                ELSE {})
    IN  {[s \in DOMAIN b \cup DOMAIN x |-> IF s \in DOMAIN b THEN b[s] ELSE x[s]] :
            b \in btc, x \in eth}

BotAdapterOutcomes ==
    {out \in [Exchanges -> UNION {{AdapterReturns(r) : r \in BotAdapterResults(e)} :
                                    e \in Exchanges}] :
        \A e \in Exchanges : out[e].results \in BotAdapterResults(e)}

InitBotCheck ==
    /\ pm_prices = EmptyTable
    /\ all_prices = EmptyTable
    /\ fetch_call = NoFetchCall
    /\ opps = <<>>
    /\ arb_args = NoArbCall
    /\ now = StartTime
    /\ managers = [m \in {Bot} |-> NewAlertManager(FALSE, FALSE, DefaultCooldownMinutes, <<>>)]
    /\ sink_log = <<>>
    /\ callback_log = <<>>
    /\ last_send = NoSend
    /\ InitIdleSaaS
    /\ \E t \in BotThresholds : price_change_threshold = t
    /\ price_alerts = <<>>
    /\ checks_run = 0
    /\ InitIdleCmd

\* a polling cycle later: prices = self.price_monitor.fetch_all_prices(self.symbols)
BotFetch ==
    /\ iteration < MaxFetches
    /\ checks_run > 0 \/ iteration = 0
    /\ \E out \in BotAdapterOutcomes : FetchAllPrices(BotSymbols, out)
    /\ iteration' = iteration + 1
    /\ now' = now + BotPollInterval
    /\ checks_run' = 0
    /\ UNCHANGED <<opps, arb_args, managers, sink_log, callback_log, last_send,
                   users, saved_users, previous_prices, pc, tick_users, tick_idx, running,
                   price_change_threshold, price_alerts>>
    /\ UNCHANGED cmdVars

\* self._check_price_changes(prices) on the table last fetched
BotCheck ==
    /\ iteration > 0
    /\ checks_run < MaxChecks
    /\ \E net \in AMNetworks :
          LET c == BotCheckPriceChanges(NewBotContext(managers[Bot]), all_prices,
                                        price_change_threshold, now, net)
          IN  /\ managers' = [managers EXCEPT ![Bot] = c.am]
              /\ previous_prices' = c.prev
              /\ price_alerts' = c.alerts
              /\ sink_log' = sink_log \o c.sinks
              /\ last_send' = c.last
    /\ checks_run' = checks_run + 1
    /\ UNCHANGED <<pmVars, now, callback_log, users, saved_users, iteration, pc,
                   tick_users, tick_idx, running, price_change_threshold>>
    /\ UNCHANGED cmdVars

NextBotCheck == BotFetch \/ BotCheck

SpecBotCheck == InitBotCheck /\ [][NextBotCheck]_vars

(***************************************************************************)
(* Specification SpecLoop: the monitoring loop of either service           *)
(* (SaaSService or CryptoAlertBot) with stop() called at any moment        *)
(***************************************************************************)
\* price levels binance quotes for BTC/USDT to the bot; 0 is a quote whose
\* price field is 0
LoopBotPrices == {0, 100, 103}

LoopBotResults(e) ==
    {EmptyTable} \cup
    {[s \in {"BTC/USDT"} |-> PriceData(p, p, p)] :
        p \in IF e = ExchangeOrder[1] THEN LoopBotPrices ELSE {100}}

LoopBotOutcomes ==
    {out \in [Exchanges -> UNION {{AdapterReturns(r) : r \in LoopBotResults(e)} :
                                    e \in Exchanges}] :
        \A e \in Exchanges : out[e].results \in LoopBotResults(e)}

\* the SaaS service after start(), with a FREE first tenant and a PRO second
\* tenant
InitLoopSaaS ==
    /\ InitSaaS
    /\ users[TenantOrder[1]].tier = "free"
    /\ users[TenantOrder[2]].tier = "pro"

\* CryptoAlertBot after __init__ (default thresholds, no sink configured) and start()
InitLoopBot ==
    /\ pm_prices = EmptyTable
    /\ all_prices = EmptyTable
    /\ fetch_call = NoFetchCall
    /\ opps = <<>>
    /\ arb_args = NoArbCall
    /\ now = StartTime
    /\ managers = [m \in {Bot} |-> NewAlertManager(FALSE, FALSE, DefaultCooldownMinutes, <<>>)]
    /\ sink_log = <<>>
    /\ callback_log = <<>>
    /\ last_send = NoSend
    /\ users = [u \in {} |-> 0]
    /\ saved_users = [u \in {} |-> 0]
    /\ previous_prices = [k \in {} |-> 0]
    /\ iteration = 0
    /\ pc = "bot_idle"
    /\ tick_users = <<>>
    /\ tick_idx = 0
    /\ running = TRUE
    /\ price_change_threshold = Rat(3, 1)
    /\ price_alerts = <<>>
    /\ checks_run = 0
    /\ InitIdleCmd

InitLoop == InitLoopSaaS \/ InitLoopBot

LoopBotCycle == \E out \in LoopBotOutcomes, net \in AMNetworks : BotCycle(out, net)

\* the steps of the monitoring thread
LoopThread ==
    \/ SaaSTickBegin \/ SaaSProcessUser \/ TickEnd \/ TickExcept \/ LoopExit
    \/ LoopBotCycle \/ BotSleep \/ BotExcept \/ BotLoopExit

NextLoop == LoopThread \/ Stop \/ BotStop

\* the steps between iterations: the sleeps, the check of the flag, the
\* beginning of a SaaS tick
LoopBetween ==
    SaaSTickBegin \/ TickEnd \/ TickExcept \/ LoopExit \/ BotSleep \/ BotExcept \/ BotLoopExit

\* ProcessUser is enabled exactly when pc = "users", and is the only step that
\* then moves pc or tick_idx
ProcessUserEnabled == pc = "users"

ProcessUserTaken == pc = "users" /\ (pc' # pc \/ tick_idx' # tick_idx)

\* BotCycle is enabled exactly at the check of a set flag (below MaxIter), and
\* is the only step of the bot that changes iteration
BotCycleEnabled == pc = "bot_idle" /\ running /\ iteration < MaxIter

BotCycleTaken == pc = "bot_idle" /\ iteration' # iteration

\* The monitoring thread is scheduled as long as it can take a step: weak
\* fairness of its steps, written for ProcessUser and BotCycle as
\* []<>~ENABLED \/ []<>taken with their enabling conditions spelled out
LoopFairness ==
    /\ WF_vars(LoopBetween)
    /\ ([]<>(~ProcessUserEnabled) \/ []<><<ProcessUserTaken>>_vars)
    /\ ([]<>(~BotCycleEnabled) \/ []<><<BotCycleTaken>>_vars)

SpecLoop == InitLoop /\ [][NextLoop]_vars /\ LoopFairness

(***************************************************************************)
(* Specification SpecSend: send_alert on an AlertManager of every sink     *)
(* configuration, with callbacks registered along the way                  *)
(***************************************************************************)
\* each sink's delivery succeeds or fails on its own
Networks == [telegram : BOOLEAN, discord : BOOLEAN]

\* the alerts sent: (type, severity)
SendKinds == {<<"price_target", "info">>, <<"whale", "critical">>}

\* a callback returns, or raises
CallbackKinds == {"ok", "raises"}

InitSend ==
    /\ now = StartTime
    /\ \E telegram \in BOOLEAN, discord \in BOOLEAN :
          managers = [m \in {Bot} |->
                        NewAlertManager(telegram, discord, DefaultCooldownMinutes, <<>>)]
    /\ sink_log = <<>>
    /\ callback_log = <<>>
    /\ last_send = NoSend
    /\ pm_prices = EmptyTable
    /\ all_prices = EmptyTable
    /\ fetch_call = NoFetchCall
    /\ opps = <<>>
    /\ arb_args = NoArbCall
    /\ InitIdleSaaS
    /\ InitIdleBot
    /\ InitIdleCmd

\* add_callback(callback), before any alert is sent
SendAddCallback ==
    /\ Len(managers[Bot].callbacks) < MaxCallbacks
    /\ managers[Bot].sent_alerts = <<>>
    /\ \E c \in CallbackKinds :
          managers' = [managers EXCEPT ![Bot] = AddCallback(@, c)]
    /\ UNCHANGED <<now, sink_log, callback_log, last_send>>
    /\ UNCHANGED pmVars
    /\ UNCHANGED saasVars
    /\ UNCHANGED botVars
    /\ UNCHANGED cmdVars

\* send_alert(alert_type, symbol, message, data, severity, dedup_key)
SendSendAlert ==
    /\ Len(managers[Bot].sent_alerts) < MaxAlerts
    /\ \E kind \in SendKinds, dedup_key \in {NoKey, <<"k1">>}, net \in Networks :
          Dispatch(Bot, SendAlert(managers[Bot], kind[1], "BTC/USDT", "text",
                                  [note |-> "n"], kind[2], dedup_key, now, net))
    /\ UNCHANGED now
    /\ UNCHANGED pmVars
    /\ UNCHANGED saasVars
    /\ UNCHANGED botVars
    /\ UNCHANGED cmdVars

NextSend == SendAddCallback \/ SendSendAlert

SpecSend == InitSend /\ [][NextSend]_vars

(***************************************************************************)
(* Specification SpecRetry: one AlertManager with any sinks and callbacks, *)
(* driven through send_alert and send_price_alert while the clock runs and *)
(* the sinks deliver or fail together                                      *)
(***************************************************************************)
RetryCallbacks == {<<>>, <<"raises", "ok">>}

\* the changes reported for a symbol: up or down, below or above twice the threshold
RetryChanges == {Rat(3, 1), Rat(0 - 3, 1), Rat(0 - 7, 1)}

RetryThreshold == Rat(3, 1)

InitRetry ==
    /\ now = StartTime
    /\ \E telegram \in BOOLEAN, discord \in BOOLEAN, c \in CooldownChoices,
          callbacks \in RetryCallbacks :
          managers = [m \in {Bot} |-> NewAlertManager(telegram, discord, c, callbacks)]
    /\ sink_log = <<>>
    /\ callback_log = <<>>
    /\ last_send = NoSend
    /\ pm_prices = EmptyTable
    /\ all_prices = EmptyTable
    /\ fetch_call = NoFetchCall
    /\ opps = <<>>
    /\ arb_args = NoArbCall
    /\ InitIdleSaaS
    /\ InitIdleBot
    /\ InitIdleCmd

\* send_price_alert(symbol, current_price, change_pct, threshold_pct)
RetrySendPriceAlert ==
    /\ Len(managers[Bot].sent_alerts) < MaxAlerts
    /\ \E change_pct \in RetryChanges, net \in AMNetworks :
          Dispatch(Bot, SendPriceAlert(managers[Bot], "BTC/USDT", 100, change_pct,
                                       RetryThreshold, now, net))
    /\ UNCHANGED now
    /\ UNCHANGED pmVars
    /\ UNCHANGED saasVars
    /\ UNCHANGED botVars
    /\ UNCHANGED cmdVars

NextRetry == AMTick \/ AMSendAlert \/ RetrySendPriceAlert

SpecRetry == InitRetry /\ [][NextRetry]_vars

(***************************************************************************)
(* Specification SpecExpiry: the SaaS loop from its first tick past the    *)
(* first expiry check, with a paid tenant whose subscription runs out      *)
(***************************************************************************)
\* users.json holds a BASIC tenant whose subscription ended before the service
\* started or ends while it runs, and a FREE tenant
ExpiryTimes == {StartTime - 1, StartTime + 600}

\* binance answers nothing or quotes every requested symbol; coinbase answers nothing
ExpiryAdapterOutcomes(requested) ==
    {[e \in Exchanges |->
        IF e = ExchangeOrder[1] THEN AdapterReturns(r) ELSE AdapterReturns(EmptyTable)] :
     r \in {EmptyTable, [s \in requested |-> PriceData(1, 1, 1)]}}

InitExpiry ==
    /\ pm_prices = EmptyTable
    /\ all_prices = EmptyTable
    /\ fetch_call = NoFetchCall
    /\ opps = <<>>
    /\ arb_args = NoArbCall
    /\ now = StartTime
    /\ managers = [m \in {} |-> 0]
    /\ sink_log = <<>>
    /\ callback_log = <<>>
    /\ last_send = NoSend
    /\ \E e \in ExpiryTimes :
          users = [u \in Tenants |->
                     IF u = TenantOrder[1]
                     THEN [NewUser(TRUE, "basic", StartTime) EXCEPT !.expires_at = e]
                     ELSE NewUser(TRUE, "free", StartTime)]
    /\ saved_users = users
    /\ previous_prices = [k \in {} |-> Rat(0, 1)]
    /\ iteration = 0
    /\ pc = "idle"
    /\ tick_users = <<>>
    /\ tick_idx = 0
    /\ running = TRUE
    /\ InitIdleBot
    /\ InitIdleCmd

ExpiryTickBegin ==
    \E out \in ExpiryAdapterOutcomes(SeqToSet(AllSymbols(GetActiveUsers))) :
        TickBeginUntil(out, MaxTicks)

ExpiryProcessUser == ProcessUser([telegram |-> TRUE, discord |-> TRUE])

NextExpiry == ExpiryTickBegin \/ ExpiryProcessUser \/ TickEnd \/ TickExcept

SpecExpiry == InitExpiry /\ [][NextExpiry]_vars

(***************************************************************************)
(* Specification SpecTenants: the UserManager under /settings messages,    *)
(* setting updates, tier upgrades and the expiry check                     *)
(***************************************************************************)
\* the chat of each tenant, and a chat without account
ChatOf(u) == "chat_" \o u

ChatIds == {ChatOf(u) : u \in Tenants} \cup {"chat_x"}

\* args.split() of the /settings messages sent
SettingsParts ==
    {<<>>, <<"threshold">>, <<"threshold", "2.0">>, <<"threshold", "abc">>,
     <<"arbitrage", "0.2">>, <<"arbitrage", "1,5">>, <<"whale", "7">>,
     <<"threshold", "7", "abc">>}

\* keyword arguments of the update_user calls made
UpdateKwargs ==
    {[f \in {"symbols"} |-> <<"SOL/USDT">>],
     [f \in {"whale_threshold", "poll_interval", "nickname"} |-> 1]}

\* subscription lengths, in days
Durations == {30}

\* users.json holds two tenants: a FREE one, and a BASIC one whose subscription
\* ends ten minutes after the start
InitTenants ==
    /\ now = StartTime
    /\ users = [u \in Tenants |->
                  IF u = TenantOrder[1]
                  THEN NewUser(ChatOf(u), "free", StartTime)
                  ELSE [NewUser(ChatOf(u), "basic", StartTime)
                            EXCEPT !.expires_at = StartTime + 600]]
    /\ saved_users = users
    /\ previous_prices = [k \in {} |-> Rat(0, 1)]
    /\ iteration = 0
    /\ pc = "none"
    /\ tick_users = <<>>
    /\ tick_idx = 0
    /\ running = FALSE
    /\ last_command = NoCommand
    /\ pm_prices = EmptyTable
    /\ all_prices = EmptyTable
    /\ fetch_call = NoFetchCall
    /\ opps = <<>>
    /\ arb_args = NoArbCall
    /\ managers = [m \in {} |-> 0]
    /\ sink_log = <<>>
    /\ callback_log = <<>>
    /\ last_send = NoSend
    /\ InitIdleBot

\* the outcome r of the command: the users, users.json when saved, the command
Answered(r, name, chat_id, args, reply) ==
    /\ users' = r.users
    /\ saved_users' = IF r.saved THEN r.users ELSE saved_users
    /\ last_command' = [n |-> last_command.n + 1, name |-> name, chat_id |-> chat_id,
                        args |-> args, reply |-> reply]
    /\ UNCHANGED <<previous_prices, iteration, pc, tick_users, tick_idx, running>>
    /\ UNCHANGED pmVars
    /\ UNCHANGED amVars
    /\ UNCHANGED botVars

\* time passes
TenantsTick ==
    /\ \E d \in ClockSteps :
          /\ now + d <= StartTime + MaxElapsed
          /\ now' = now + d
    /\ UNCHANGED <<managers, sink_log, callback_log, last_send>>
    /\ UNCHANGED pmVars
    /\ UNCHANGED saasVars
    /\ UNCHANGED botVars
    /\ UNCHANGED cmdVars

\* a /settings message arrives
TenantsSettings ==
    /\ last_command.n < MaxCommands
    /\ \E chat_id \in ChatIds, parts \in SettingsParts :
          LET r == HandleSettings(users, chat_id, parts, now)
          IN  Answered(r, "settings", chat_id, parts, r.reply)

\* update_user(user_id, **kwargs)
TenantsUpdate ==
    /\ last_command.n < MaxCommands
    /\ \E u \in Tenants, kwargs \in UpdateKwargs :
          LET r == UpdateUser(users, u, kwargs, now)
          IN  Answered(r, "update", u, <<>>, IF r.result THEN "True" ELSE "False")

\* upgrade_tier(user_id, new_tier, duration_days)
TenantsUpgrade ==
    /\ last_command.n < MaxCommands
    /\ \E u \in Tenants \cup {"u0"}, tier \in Tiers, days \in Durations :
          LET r == UpgradeTier(users, u, tier, days, now)
          IN  Answered(r, "upgrade", u, <<tier>>, IF r.result THEN "True" ELSE "False")

\* deactivate_expired()
TenantsExpire ==
    /\ last_command.n < MaxCommands
    /\ LET expired == CheckExpiredSubscriptions(users, now)
           r == [users |-> DeactivateExpired(users, now), saved |-> expired # {}]
       IN  Answered(r, "expire", "", <<>>, IF expired # {} THEN "expired" ELSE "none")

NextTenants ==
    TenantsTick \/ TenantsSettings \/ TenantsUpdate \/ TenantsUpgrade \/ TenantsExpire

SpecTenants == InitTenants /\ [][NextTenants]_vars

(***************************************************************************)
(* Specification SpecShared: the SaaS loop over tenants loaded from        *)
(* users.json, active or not                                               *)
(***************************************************************************)
\* the tiers of the tenants of users.json
SharedTiers == {"free", "basic", "enterprise"}

InitShared ==
    /\ pm_prices = EmptyTable
    /\ all_prices = EmptyTable
    /\ fetch_call = NoFetchCall
    /\ opps = <<>>
    /\ arb_args = NoArbCall
    /\ now = StartTime
    /\ managers = [m \in {} |-> 0]
    /\ sink_log = <<>>
    /\ callback_log = <<>>
    /\ last_send = NoSend
    /\ \E tier \in [Tenants -> SharedTiers], active \in [Tenants -> BOOLEAN] :
          users = [u \in Tenants |->
                     [NewUser(TRUE, tier[u], StartTime) EXCEPT !.is_active = active[u]]]
    /\ saved_users = users
    /\ previous_prices = [k \in {} |-> Rat(0, 1)]
    /\ iteration = 0
    /\ pc = "idle"
    /\ tick_users = <<>>
    /\ tick_idx = 0
    /\ running = TRUE
    /\ InitIdleBot
    /\ InitIdleCmd

SpecShared == InitShared /\ [][NextSaaS]_vars

(***************************************************************************)
(* Properties of find_arbitrage and fetch_all_prices                       *)
(***************************************************************************)
QuotedAsks(d) == {d[i].pd.ask : i \in DOMAIN d} \ {0}

QuotedBids(d) == {d[i].pd.bid : i \in DOMAIN d} \ {0}

LowestAsk(d) == CHOOSE a \in QuotedAsks(d) : \A b \in QuotedAsks(d) : a <= b

HighestBid(d) == CHOOSE a \in QuotedBids(d) : \A b \in QuotedBids(d) : a >= b

\* one exchange's ask is strictly below another exchange's bid
CrossExchangeSpread(d) ==
    \E i, j \in DOMAIN d : i # j /\ d[i].pd.ask # 0 /\ d[i].pd.ask < d[j].pd.bid

OppsOf(s) == {i \in DOMAIN opps : opps[i].symbol = s}

Occurrences(list, s) == Cardinality({i \in DOMAIN list : list[i] = s})

\* the opportunity buys at the lowest ask and sells at the highest bid of d
IsBestSpread(opp, d) ==
    /\ opp.buy_price = LowestAsk(d)
    /\ opp.sell_price = HighestBid(d)
    /\ RatEq(opp.profit_pct, Rat((HighestBid(d) - LowestAsk(d)) * 100, LowestAsk(d)))

\* C5: every opportunity find_arbitrage(symbols, min_profit_pct = t) returns has
\* profit_pct >= t and sell_price > buy_price.
C5_ProfitAtLeastThreshold ==
    arb_args.called =>
        \A i \in DOMAIN opps :
            /\ RatGeq(opps[i].profit_pct, arb_args.min_profit_pct)
            /\ opps[i].sell_price > opps[i].buy_price

\* C5 witness: two opportunities are returned, one of them exactly at the threshold
C5_Witness ==
    /\ arb_args.called
    /\ Len(opps) = 2
    /\ \E i \in DOMAIN opps : RatEq(opps[i].profit_pct, arb_args.min_profit_pct)

\* C6 as stated: every listed symbol with quotes from two exchanges and a
\* cross-exchange spread yields exactly one opportunity, at the lowest ask and
\* the highest bid, whatever the threshold.
C6_OneOppPerSpread ==
    arb_args.called =>
        \A s \in SeqToSet(arb_args.symbols) :
            (/\ s \in DOMAIN pm_prices
             /\ Len(pm_prices[s]) >= 2
             /\ CrossExchangeSpread(pm_prices[s]))
            => /\ Cardinality(OppsOf(s)) = 1
               /\ \A i \in OppsOf(s) : IsBestSpread(opps[i], pm_prices[s])

\* C6 amended: for a symbol occurring once in the list, with quotes from two
\* exchanges and a cross-exchange spread, exactly one opportunity (lowest ask,
\* highest bid, profit_pct = (bestBid - bestAsk) / bestAsk * 100) is returned
\* when that profit_pct >= min_profit_pct, and none otherwise.
C6_OneOppPerSpreadAboveThreshold ==
    arb_args.called =>
        \A s \in SeqToSet(arb_args.symbols) :
            (/\ Occurrences(arb_args.symbols, s) = 1
             /\ s \in DOMAIN pm_prices
             /\ Len(pm_prices[s]) >= 2
             /\ CrossExchangeSpread(pm_prices[s]))
            => LET d == pm_prices[s]
                   pct == Rat((HighestBid(d) - LowestAsk(d)) * 100, LowestAsk(d))
               IN  IF RatGeq(pct, arb_args.min_profit_pct)
                   THEN /\ Cardinality(OppsOf(s)) = 1
                        /\ \A i \in OppsOf(s) : IsBestSpread(opps[i], d)
                   ELSE OppsOf(s) = {}

\* C6 witness: an opportunity whose buy side is not the first exchange's ask
C6_Witness ==
    /\ arb_args.called
    /\ \E s \in SeqToSet(arb_args.symbols) :
          /\ Occurrences(arb_args.symbols, s) = 1
          /\ s \in DOMAIN pm_prices
          /\ Len(pm_prices[s]) >= 2
          /\ CrossExchangeSpread(pm_prices[s])
          /\ pm_prices[s][1].pd.ask > LowestAsk(pm_prices[s])
          /\ OppsOf(s) # {}

\* an adapter raised or returned less than was requested
AdapterFailed(e) ==
    \/ fetch_call.out[e].raised
    \/ DOMAIN fetch_call.out[e].results # SeqToSet(fetch_call.symbols)

\* the adapter of exchange e returned a quote for s in the last call
Returned(e, s) == ~fetch_call.out[e].raised /\ s \in DOMAIN fetch_call.out[e].results

\* C7 as stated: after a polling cycle in which some adapters failed, every
\* opportunity find_arbitrage returns is computed from quotes of that cycle's table.
C7_OnlyCurrentCycleQuotes ==
    (arb_args.called /\ fetch_call.called /\ \E e \in Exchanges : AdapterFailed(e)) =>
        \A i \in DOMAIN opps :
            /\ HasQuote(all_prices, opps[i].symbol, opps[i].buy_exchange)
            /\ HasQuote(all_prices, opps[i].symbol, opps[i].sell_exchange)
            /\ DictGet(all_prices[opps[i].symbol], opps[i].buy_exchange).ask = opps[i].buy_price
            /\ DictGet(all_prices[opps[i].symbol], opps[i].sell_exchange).bid = opps[i].sell_price

\* C8: fetch_all_prices does not raise, and the table it returns holds exactly
\* the quotes the adapters returned in that call, one per exchange and symbol;
\* a symbol no adapter returned is absent.
C8_FetchedExactlyReturned ==
    fetch_call.called =>
        /\ ~fetch_call.raised
        /\ \A s \in Symbols, e \in Exchanges :
              /\ HasQuote(all_prices, s, e) <=> Returned(e, s)
              /\ HasQuote(all_prices, s, e) =>
                    DictGet(all_prices[s], e) = fetch_call.out[e].results[s]
        /\ \A s \in DOMAIN all_prices :
              /\ all_prices[s] # <<>>
              /\ Cardinality(DictKeys(all_prices[s])) = Len(all_prices[s])

\* C8 witness: one adapter raised, another returned a partial result, and a
\* requested symbol cached from an earlier cycle is absent from the returned table
C8_Witness ==
    /\ fetch_call.called
    /\ \E e \in Exchanges : fetch_call.out[e].raised
    /\ \E e \in Exchanges : ~fetch_call.out[e].raised /\ fetch_call.out[e].results # EmptyTable
    /\ \E s \in SeqToSet(fetch_call.symbols) : s \notin DOMAIN all_prices /\ s \in DOMAIN pm_prices

(***************************************************************************)
(* Properties of the dedup ledger                                          *)
(***************************************************************************)
\* a send_alert call is made in this step
SendStep == last_send' # last_send \/ managers' # managers

\* same alert type, symbol and dedup key (the calendar day left aside)
SameIdentity(id1, id2) ==
    id1.type = id2.type /\ id1.symbol = id2.symbol /\ id1.key = id2.key

CooldownSeconds(m) == managers[m].cooldown_minutes * SecondsPerMinute

\* the alerts manager m accepted with the identity of `call` less than one
\* cooldown before it
RecentSame(m, call) ==
    {i \in DOMAIN managers[m].sent_alerts :
        /\ SameIdentity(managers[m].sent_alerts[i].id, call.alert_id)
        /\ call.time - managers[m].sent_alerts[i].timestamp < CooldownSeconds(m)}

\* C1 as stated: a send_alert call with a dedup key made less than the cooldown
\* after an accepted alert of the same type, symbol and key returns False and
\* reaches no sink, at any time of day; made once the cooldown has elapsed it
\* is delivered.
C1_OneAlertPerCooldown ==
    [][(SendStep /\ last_send'.call.dedup_key # NoKey) =>
        IF RecentSame(last_send'.manager, last_send'.call) # {}
        THEN /\ last_send'.suppressed
             /\ ~last_send'.result
             /\ sink_log' = sink_log
        ELSE /\ ~last_send'.suppressed
             /\ Len(sink_log') > Len(sink_log)]_vars

\* C2: send_alert with a dedup key is suppressed by _is_duplicate if and only if
\* the ledger holds an entry for the alert id and strictly less than the cooldown
\* has elapsed since that entry's timestamp.
C2_DuplicateIffWithinCooldown ==
    [][(SendStep /\ last_send'.call.dedup_key # NoKey) =>
        LET m == last_send'.manager
            id == last_send'.call.alert_id
        IN  last_send'.suppressed <=>
                (/\ id \in DOMAIN managers[m].alert_history
                 /\ last_send'.call.time - managers[m].alert_history[id]
                        < CooldownSeconds(m))]_vars

\* C2 witness: an alert arriving exactly one cooldown after the entry of its id
\* was recorded is accepted
C2_Witness ==
    /\ last_send.called
    /\ ~last_send.suppressed
    /\ last_send.call.dedup_key # NoKey
    /\ \E i \in DOMAIN managers[last_send.manager].sent_alerts :
          LET a == managers[last_send.manager].sent_alerts[i] IN
          /\ a.id = last_send.call.alert_id
          /\ last_send.call.time - a.timestamp = CooldownSeconds(last_send.manager)

\* C3 as stated: with the 15-minute cooldown, a whale alert for a transaction
\* already accepted less than 15 minutes earlier (sent both times with its hash,
\* or both times without) returns False and reaches no sink.
C3_WhaleAlertOnce ==
    [][(/\ SendStep
        /\ last_send'.call.alert_id.type = "whale"
        /\ managers[last_send'.manager].cooldown_minutes = DefaultCooldownMinutes
        /\ \E i \in DOMAIN managers[last_send'.manager].sent_alerts :
              LET a == managers[last_send'.manager].sent_alerts[i] IN
              /\ a.type = "whale"
              /\ a.data = last_send'.call.data
              /\ last_send'.call.time - a.timestamp
                    < DefaultCooldownMinutes * SecondsPerMinute)
       => /\ last_send'.suppressed
          /\ ~last_send'.result
          /\ sink_log' = sink_log]_vars

(***************************************************************************)
(* Properties of the SaaS service                                          *)
(***************************************************************************)
HasManager(u) == AlertManagerKey(u) \in DOMAIN managers

TenantManager(u) == managers[AlertManagerKey(u)]

\* the log of am holds an alert with this id accepted less than a cooldown before t
OwnRecentAlert(am, alert_id, t) ==
    \E i \in DOMAIN am.sent_alerts :
        /\ am.sent_alerts[i].id = alert_id
        /\ t - am.sent_alerts[i].timestamp < am.cooldown_minutes * SecondsPerMinute

\* C4: each tenant has its own cooldown ledger and alert log. Processing
\* tenant a (its alerts sent or suppressed) leaves the manager, ledger and log
\* of every other tenant b as they were, every sink call made is made by
\* a's manager, and an alert for a is suppressed only when a's own log holds
\* an alert with the same id accepted less than a cooldown ago.
C4_TenantLedgersIsolated ==
    [][pc = "users" =>
        LET a == tick_users[tick_idx] IN
        /\ \A b \in Tenants \ {a} :
              /\ (AlertManagerKey(b) \in DOMAIN managers') = HasManager(b)
              /\ HasManager(b) => managers'[AlertManagerKey(b)] = TenantManager(b)
        /\ \A i \in DOMAIN sink_log' :
              i > Len(sink_log) => sink_log'[i].manager = AlertManagerKey(a)
        /\ (last_send' # last_send /\ last_send'.suppressed) =>
              OwnRecentAlert(managers'[AlertManagerKey(a)], last_send'.call.alert_id, now)
    ]_vars

\* C4 witness: tenant b's alert was just accepted although tenant a's ledger
\* holds the same alert id, recorded less than a cooldown ago
C4_Witness ==
    \E a \in Tenants, b \in Tenants :
        /\ a # b /\ HasManager(a) /\ HasManager(b)
        /\ last_send.called /\ ~last_send.suppressed
        /\ last_send.manager = AlertManagerKey(b)
        /\ last_send.call.alert_id \in DOMAIN TenantManager(a).alert_history
        /\ last_send.call.time - TenantManager(a).alert_history[last_send.call.alert_id]
              < TenantManager(a).cooldown_minutes * SecondsPerMinute
        /\ TenantManager(b).alert_history[last_send.call.alert_id] = last_send.call.time

\* the tenant at position j of this tick's user list has had its checks run
Processed(j) == j <= tick_idx

\* C9: when processing one tenant raises in a tick, every other active tenant
\* of that tick is still processed in the same tick.
C9_OtherTenantsStillProcessed ==
    pc = "except" =>
        \A j \in DOMAIN tick_users : j # tick_idx => Processed(j)

\* the checks of the tenant at position j have run in the current tick
\* (to completion or to an exception)
Attempted(j) ==
    \/ pc = "users" /\ j < tick_idx
    \/ pc = "except" /\ j <= tick_idx
    \/ pc = "end"

\* C10: after a tick has processed a tenant, for each of the tenant's symbols
\* present in the fetched table the stored previous price for (tenant, symbol)
\* is that tick's average price over the exchanges present.
C10_PreviousPriceIsTickAverage ==
    \A j \in DOMAIN tick_users :
        Attempted(j) =>
            \A s \in SeqToSet(users[tick_users[j]].symbols) \cap DOMAIN all_prices :
                /\ PreviousKey(tick_users[j], s) \in DOMAIN previous_prices
                /\ RatEq(previous_prices[PreviousKey(tick_users[j], s)],
                         AvgPrice(all_prices[s]))

(***************************************************************************)
(* Properties of CryptoAlertBot._check_price_changes                       *)
(***************************************************************************)
\* a _check_price_changes call is made in this step
CheckStep == checks_run' = checks_run + 1

\* the send_price_alert calls the check made for symbol s
AlertsFor(alerts, s) == {i \in DOMAIN alerts : alerts[i].symbol = s}

\* |(avg - previous) / previous * 100| >= threshold, avg the mean of the quote
\* prices of d, by cross-multiplication (previous and threshold.den positive)
ChangeReaches(d, previous, threshold) ==
    LET total == SumPrices(d, Len(d))
        diff == total * previous.den - previous.num * Len(d)
        absdiff == IF diff < 0 THEN 0 - diff ELSE diff
    IN  absdiff * 100 * threshold.den >= threshold.num * previous.num * Len(d)

C12_SecondRunRaisesNothing ==
    checks_run >= 2 => price_alerts = <<>>

(***************************************************************************)
(* Properties of the SaaS scheduler's feature gates                        *)
(***************************************************************************)
\* the tick is over: the for loop was left normally or by an exception
TickOver == pc \in {"end", "except"}

\* the alerts of the given type that tenant u's manager accepted in this tick
\* (the clock does not advance within a tick)
AcceptedThisTick(u, type) ==
    IF HasManager(u)
    THEN {i \in DOMAIN TenantManager(u).sent_alerts :
            /\ TenantManager(u).sent_alerts[i].type = type
            /\ TenantManager(u).sent_alerts[i].timestamp = now}
    ELSE {}

\* _check_price_changes_for_user is the first call made for the tenant at
\* position j, so it has run once the for loop has reached j
PriceCheckRan(j) == j <= tick_idx

\* no arbitrage alert for a FREE tenant, no whale alert for a FREE or BASIC one
GatesRespected(u) ==
    /\ users[u].tier = "free" => AcceptedThisTick(u, "arbitrage") = {}
    /\ users[u].tier \in {"free", "basic"} => AcceptedThisTick(u, "whale") = {}

\* C13: in every tick, no arbitrage alert is dispatched for a FREE tenant, no
\* whale alert for a FREE or BASIC tenant, and the price-change check runs for
\* every active tenant of the tick regardless of tier.
C13_GatesAndPriceCheckForAll ==
    TickOver =>
        \A j \in DOMAIN tick_users :
            /\ GatesRespected(tick_users[j])
            /\ PriceCheckRan(j)

(***************************************************************************)
(* Properties of the monitoring loops                                      *)
(***************************************************************************)
\* _monitoring_loop has returned
Exited == pc \in {"done", "bot_done"}

\* the loop is at its `while self.running` check
AtCheck == pc \in {"idle", "bot_idle"}

\* an iteration has ended, completed (before its sleep) or by an exception
IterationEnded == pc \in {"end", "except", "bot_sleep", "bot_except"}

\* an iteration is under way or has just ended
InIteration == pc \in {"users", "end", "except", "bot_sleep", "bot_except"}

\* C14: the monitoring loop (SaaSService and CryptoAlertBot) terminates only
\* on an explicit stop. The loop returns only when the running flag is clear,
\* a new iteration starts only while the flag is set, and a loop that returned
\* stays so; every iteration, completed or ended by an exception, leads back
\* to the check of the flag, from where, while the flag is set, another
\* iteration follows (up to MaxIter); once the flag is cleared the loop exits.
C14_LoopEndsOnlyOnStop ==
    /\ [][/\ (Exited' /\ ~Exited) => ~running
          /\ iteration' # iteration => running
          /\ Exited => Exited']_vars
    /\ IterationEnded ~> AtCheck
    /\ (AtCheck /\ running /\ iteration < MaxIter) ~> (InIteration \/ ~running)
    /\ ~running ~> Exited

\* C14 witness: the first iteration ended in the except branch, the second
\* iteration ran, stop() was called and the loop has returned
C14_Witness ==
    /\ Exited
    /\ ~running
    /\ iteration = 2
    /\ now = StartTime + ErrorSleepSeconds + IF pc = "done" THEN SleepSeconds
                                             ELSE BotPollInterval

(***************************************************************************)
(* Properties of send_alert: sinks, callbacks, console fallback, stats     *)
(***************************************************************************)
\* a step of SpecSend that is a send_alert call (add_callback changes the callbacks)
SendCall ==
    /\ managers'[Bot].callbacks = managers[Bot].callbacks
    /\ last_send'.called

\* a send_alert call that was not suppressed
AcceptedSend == SendCall /\ ~last_send'.suppressed

\* the sink calls and the callback calls the step made
NewSinkCalls == SubSeq(sink_log', Len(sink_log) + 1, Len(sink_log'))
NewCallbackCalls == SubSeq(callback_log', Len(callback_log) + 1, Len(callback_log'))

\* the sinks configured on the manager
ConfiguredSinks(am) ==
    (IF am.telegram THEN {"telegram"} ELSE {})
    \cup (IF am.discord THEN {"discord"} ELSE {})

\* C15: a send_alert call that is not suppressed calls every configured sink,
\* whatever the other sink answered, and returns True exactly when some
\* configured sink confirmed delivery, or when no sink is configured and no
\* callback is registered (the console fallback).
C15_TrueIffSinkConfirmsOrUnconfigured ==
    [][AcceptedSend =>
        /\ {NewSinkCalls[i].sink : i \in DOMAIN NewSinkCalls} = ConfiguredSinks(managers[Bot])
        /\ Len(NewSinkCalls) = Cardinality(ConfiguredSinks(managers[Bot]))
        /\ last_send'.result <=>
              \/ \E i \in DOMAIN NewSinkCalls : NewSinkCalls[i].ok
              \/ /\ ConfiguredSinks(managers[Bot]) = {}
                 /\ managers[Bot].callbacks = <<>>]_vars

\* the manager with every callback replaced by one that returns
QuietCallbacks(am) == [am EXCEPT !.callbacks = [i \in DOMAIN @ |-> "ok"]]

\* C16: a send_alert call that is not suppressed invokes every registered
\* callback exactly once, in order, with the alert, whatever the sinks did;
\* and the value returned, the history, the alert log and the sink calls are
\* those of the same call with callbacks that do not raise.
C16_EveryCallbackOnceAndIsolated ==
    [][AcceptedSend =>
        /\ Len(NewCallbackCalls) = Len(managers[Bot].callbacks)
        /\ \A i \in DOMAIN NewCallbackCalls :
              /\ NewCallbackCalls[i].callback = i
              /\ NewCallbackCalls[i].alert_id = last_send'.call.alert_id
        /\ \E kind \in SendKinds, net \in Networks :
              LET r == SendAlert(QuietCallbacks(managers[Bot]), kind[1], "BTC/USDT", "text",
                                 [note |-> "n"], kind[2], last_send'.call.dedup_key, now, net)
              IN  /\ r.result = last_send'.result
                  /\ r.am.sent_alerts = managers'[Bot].sent_alerts
                  /\ r.am.alert_history = managers'[Bot].alert_history
                  /\ r.sinks = [i \in DOMAIN NewSinkCalls |->
                                  [sink |-> NewSinkCalls[i].sink, ok |-> NewSinkCalls[i].ok,
                                   alert_id |-> NewSinkCalls[i].alert_id,
                                   time |-> NewSinkCalls[i].time]]]_vars

\* a raising callback followed by another one, both invoked for the last alert
\* although the configured Telegram sink failed
C16_Witness ==
    /\ last_send.called /\ ~last_send.suppressed /\ ~last_send.result
    /\ managers[Bot].callbacks = <<"raises", "ok">>
    /\ managers[Bot].telegram
    /\ Len(managers[Bot].sent_alerts) = 1
    /\ Len(callback_log) = 2
    /\ callback_log[1].callback = 1 /\ callback_log[2].callback = 2
    /\ \E i \in DOMAIN sink_log : sink_log[i].sink = "telegram" /\ ~sink_log[i].ok

RECURSIVE SumCounts(_, _)
\* sum(counts.values()) over the keys S
SumCounts(counts, S) ==
    IF S = {} THEN 0
    ELSE LET k == CHOOSE x \in S : TRUE
         IN  counts[k] + SumCounts(counts, S \ {k})

TotalAlerts == GetAlertStats(managers[Bot], now).total_alerts

\* C17: with no sink configured and no callback registered, a send_alert call
\* that is not suppressed prints the alert, returns True and appends it to the
\* alert log; total_alerts grows by one with every accepted alert and by nothing
\* otherwise, and always equals the sum of by_type and the sum of by_severity.
C17_ConsoleFallbackAndStats ==
    /\ [](LET stats == GetAlertStats(managers[Bot], now)
          IN  /\ stats.total_alerts = SumCounts(stats.by_type, DOMAIN stats.by_type)
              /\ stats.total_alerts = SumCounts(stats.by_severity, DOMAIN stats.by_severity))
    /\ [][/\ TotalAlerts' = TotalAlerts + (IF AcceptedSend THEN 1 ELSE 0)
          /\ (/\ AcceptedSend
              /\ ConfiguredSinks(managers[Bot]) = {}
              /\ managers[Bot].callbacks = <<>>)
             => /\ last_send'.console
                /\ last_send'.result
                /\ managers'[Bot].sent_alerts[Len(managers'[Bot].sent_alerts)].id
                      = last_send'.call.alert_id]_vars

\* two alerts of different type and severity went to the console of a manager
\* with no sink and no callback
C17_Witness ==
    /\ ConfiguredSinks(managers[Bot]) = {}
    /\ managers[Bot].callbacks = <<>>
    /\ last_send.called /\ last_send.console /\ last_send.result
    /\ GetAlertStats(managers[Bot], now).total_alerts = 2
    /\ GetAlertStats(managers[Bot], now).by_type = [v \in {"price_target", "whale"} |-> 1]
    /\ GetAlertStats(managers[Bot], now).by_severity = [v \in {"info", "critical"} |-> 1]

(***************************************************************************)
(* Properties of the subscription expiry                                   *)
(***************************************************************************)
\* the tenant has the tier's default settings
HasTierDefaults(user, tier) ==
    LET d == TierSettings(tier)
    IN  /\ user.symbols = d.symbols
        /\ user.arbitrage_threshold = d.arbitrage_threshold
        /\ user.price_change_threshold = d.price_change_threshold
        /\ user.whale_threshold = d.whale_threshold
        /\ user.poll_interval = d.poll_interval

\* the step that ends a tick whose number is a multiple of the expiry period,
\* through the end of the try block or through the except branch
ExpiryTickOver ==
    /\ pc \in {"end", "except"}
    /\ pc' = "idle"
    /\ iteration % ExpiryPeriod = 0

\* C18: when a tick whose number is a multiple of 120 is over, whatever
\* happened earlier in that tick, every paid tenant whose subscription had
\* expired is on the FREE tier with the free-tier default settings and is active
\* (so that a running loop downgrades every expired paid tenant at the next such tick).
C18_ExpiredDowngradedEvery120thTick ==
    [][ExpiryTickOver =>
        \A u \in DOMAIN users :
            IsExpired(users[u], now) =>
                /\ users'[u].tier = "free"
                /\ HasTierDefaults(users'[u], "free")
                /\ users'[u].is_active]_vars

\* the expiry check ran at the end of tick 120 and downgraded the tenant
ExpiryCheckRan ==
    /\ iteration = ExpiryPeriod
    /\ pc = "idle"
    /\ users[TenantOrder[1]].tier = "free"
    /\ users[TenantOrder[1]].expires_at # 0

(***************************************************************************)
(* Properties of the tenant records                                        *)
(***************************************************************************)
\* the step is the command `name`
CommandStep(name) ==
    /\ last_command'.n = last_command.n + 1
    /\ last_command'.name = name

\* every tenant except those of S has the record it had
OthersUnchanged(S) == \A v \in DOMAIN users \ S : users'[v] = users[v]

\* C19: after upgrade_tier(user, tier), and after the expiry downgrade of a
\* tenant, the tenant's symbols, arbitrage_threshold, price_change_threshold,
\* whale_threshold and poll_interval are the defaults of the new tier, whatever
\* they were before, and the records of the other tenants are unchanged.
C19_TierChangeResetsSettings ==
    [][/\ (CommandStep("upgrade") /\ last_command'.chat_id \in DOMAIN users) =>
            LET u == last_command'.chat_id
                tier == last_command'.args[1]
            IN  /\ users'[u].tier = tier
                /\ HasTierDefaults(users'[u], tier)
                /\ OthersUnchanged({u})
       /\ CommandStep("expire") =>
            LET expired == CheckExpiredSubscriptions(users, now)
            IN  /\ \A u \in expired :
                      users'[u].tier = "free" /\ HasTierDefaults(users'[u], "free")
                /\ OthersUnchanged(expired)]_vars

\* the first tenant changed a setting after the start and was then upgraded to
\* PRO: it has the PRO defaults, and the other tenant its own record
C19_Witness ==
    /\ last_command.n = 2
    /\ last_command.name = "upgrade"
    /\ last_command.chat_id = TenantOrder[1]
    /\ last_command.args = <<"pro">>
    /\ users[TenantOrder[1]].last_activity > StartTime
    /\ users[TenantOrder[1]].tier = "pro"
    /\ HasTierDefaults(users[TenantOrder[1]], "pro")
    /\ users[TenantOrder[2]].tier = "basic"

\* the /settings message names no known setting with a number after it
Rejectable(parts) ==
    /\ parts # <<>>
    /\ \/ Len(parts) < 2
       \/ parts[1] \notin {"threshold", "arbitrage"}
       \/ parts[2] \notin FloatTokens

\* C20: a /settings message of a tenant with a value that is no number, with an
\* unknown setting name or without a value is answered with an error message,
\* and every field of every tenant record, last_activity included, and
\* users.json stay as they were.
C20_RejectedSettingsChangeNothing ==
    [][(/\ CommandStep("settings")
        /\ GetUserByTelegram(users, last_command'.chat_id) # NoUser
        /\ Rejectable(last_command'.args))
       => /\ last_command'.reply \in {"invalid_value", "usage"}
          /\ users' = users
          /\ saved_users' = saved_users]_vars

\* a tenant sent "/settings threshold abc" some time after its last activity and
\* got the invalid-value answer
C20_Witness ==
    /\ last_command.name = "settings"
    /\ last_command.args = <<"threshold", "abc">>
    /\ last_command.reply = "invalid_value"
    /\ LET u == GetUserByTelegram(users, last_command.chat_id)
       IN  /\ u # NoUser
           /\ users[u].last_activity < now
           /\ users[u].price_change_threshold = TierSettings(users[u].tier).price_change_threshold

(***************************************************************************)
(* Properties of the shared fetch                                          *)
(***************************************************************************)
\* the symbols of the active tenants
ActiveSymbols ==
    UNION {SeqToSet(users[u].symbols) : u \in {v \in DOMAIN users : users[v].is_active}}

\* the step begins a tick
TickBegins == iteration' = iteration + 1

\* C21: the step that begins a tick makes one fetch_all_prices call, for the
\* union of the symbols of the active tenants, and returns the table every
\* tenant of the tick is checked against; with no active tenant it makes no
\* call; no other step of the tick fetches or changes the table.
C21_OneFetchPerTickForUnion ==
    [][/\ TickBegins =>
            IF \E u \in DOMAIN users : users[u].is_active
            THEN /\ fetch_call'.called
                 /\ SeqToSet(fetch_call'.symbols) = ActiveSymbols
                 /\ Len(fetch_call'.symbols) = Cardinality(ActiveSymbols)
                 /\ all_prices' = FetchedTable(pm_prices, fetch_call'.out)
                 /\ pc' = "users"
            ELSE /\ UNCHANGED <<fetch_call, all_prices, pm_prices>>
                 /\ pc' = "end"
       /\ ~TickBegins => UNCHANGED <<fetch_call, all_prices, pm_prices>>]_vars

\* a tick with two active tenants of different symbol lists fetched the union
\* once, and the second tenant is being checked against the table
C21_Witness ==
    /\ pc = "users" /\ tick_idx = 2
    /\ Len(tick_users) = 2
    /\ users[TenantOrder[1]].symbols # users[TenantOrder[2]].symbols
    /\ SeqToSet(fetch_call.symbols) = ActiveSymbols
    /\ fetch_call.called

(***************************************************************************)
(* Properties of the order of find_arbitrage's result                      *)
(***************************************************************************)
\* the position at which s is first met in the symbol list
FirstIndex(list, s) ==
    CHOOSE i \in DOMAIN list : list[i] = s /\ \A j \in 1..(i - 1) : list[j] # s

\* C22: the opportunities find_arbitrage returns are ordered by profit_pct
\* descending, and of two opportunities with equal profit_pct the one whose
\* symbol is met first in the symbol list passed in comes first.
C22_SortedDescendingStable ==
    arb_args.called =>
        \A i, j \in DOMAIN opps :
            i < j =>
                /\ RatGeq(opps[i].profit_pct, opps[j].profit_pct)
                /\ RatEq(opps[i].profit_pct, opps[j].profit_pct) =>
                        FirstIndex(arb_args.symbols, opps[i].symbol)
                            <= FirstIndex(arb_args.symbols, opps[j].symbol)

\* two symbols with the same profit, listed as ETH before BTC, are returned
\* in that order
C22_Witness ==
    /\ arb_args.called
    /\ arb_args.symbols = <<"ETH/USDT", "BTC/USDT">>
    /\ Len(opps) = 2
    /\ opps[1].symbol = "ETH/USDT"
    /\ opps[2].symbol = "BTC/USDT"
    /\ RatEq(opps[1].profit_pct, opps[2].profit_pct)

\* a higher profit met later in the list is returned first
C22_Reordered ==
    /\ arb_args.called
    /\ Len(opps) = 2
    /\ opps[1].symbol = arb_args.symbols[2]
    /\ opps[2].symbol = arb_args.symbols[1]
    /\ RatGt(opps[1].profit_pct, opps[2].profit_pct)

(***************************************************************************)
(* Properties of same-exchange spreads                                     *)
(***************************************************************************)
\* the exchange at position i of d quotes bid > ask, and its bid is the highest
\* bid and its ask the lowest ask of d
CrossedBest(d, i) ==
    /\ d[i].pd.ask # 0
    /\ d[i].pd.bid > d[i].pd.ask
    /\ d[i].pd.bid = HighestBid(d)
    /\ d[i].pd.ask = LowestAsk(d)

\* no exchange before position i quotes the same bid or the same ask
FirstAtBest(d, i) ==
    \A j \in 1..(i - 1) : d[j].pd.bid # d[i].pd.bid /\ d[j].pd.ask # d[i].pd.ask

\* an opportunity for s that buys and sells on one exchange
SameExchangeOpps(s) == {k \in OppsOf(s) : opps[k].buy_exchange = opps[k].sell_exchange}

\* send_arbitrage_alert for opp on a manager without history records a critical
\* arbitrage alert that names the two exchanges
DispatchedCritical(opp) ==
    LET r == SendArbitrageAlert(NewAlertManager(FALSE, FALSE, DefaultCooldownMinutes, <<>>),
                                opp.symbol, opp.buy_exchange, opp.sell_exchange,
                                opp.profit_pct, opp.profit_usd, StartTime,
                                [telegram |-> FALSE, discord |-> FALSE])
    IN  /\ ~r.suppressed
        /\ Len(r.am.sent_alerts) = 1
        /\ r.am.sent_alerts[1].type = "arbitrage"
        /\ r.am.sent_alerts[1].severity = "critical"
        /\ r.am.sent_alerts[1].data.buy_exchange = opp.buy_exchange
        /\ r.am.sent_alerts[1].data.sell_exchange = opp.sell_exchange

QuotesOf(tbl) == UNION {{tbl[s][i].pd : i \in DOMAIN tbl[s]} : s \in DOMAIN tbl}

\* C23: every quote in the table fetch_all_prices returned, and every quote of
\* the cache the arbitrage detector reads, has price > 0.
C23_EveryQuotePositive ==
    \A q \in QuotesOf(all_prices) \cup QuotesOf(pm_prices) : q.price > 0

(***************************************************************************)
(* Properties of the cooldown ledger and the alert log                     *)
(***************************************************************************)
\* every logged alert has its id in the ledger, and the ledger maps every id to
\* the time of the latest logged alert with that id
LedgerMatchesLog(am) ==
    /\ \A i \in DOMAIN am.sent_alerts : am.sent_alerts[i].id \in DOMAIN am.alert_history
    /\ \A id \in DOMAIN am.alert_history :
          /\ \E i \in DOMAIN am.sent_alerts :
                /\ am.sent_alerts[i].id = id
                /\ am.sent_alerts[i].timestamp = am.alert_history[id]
          /\ \A i \in DOMAIN am.sent_alerts :
                am.sent_alerts[i].id = id => am.sent_alerts[i].timestamp <= am.alert_history[id]

\* C24: the ledger is upserted on every accepted alert and never shrinks: every
\* alert of the log has its id in the ledger, the ledger timestamp of an id is
\* the time of the most recent accepted alert with that id, an accepted alert is
\* appended to the log and its id set to the current time in the ledger with no
\* other entry touched, and no ledger entry or log entry is ever removed.
C24_LedgerUpsertedNeverShrinks ==
    /\ [](LedgerMatchesLog(managers[Bot]))
    /\ [][LET am == managers[Bot]
              am2 == managers'[Bot]
              id == last_send'.call.alert_id
          IN  /\ DOMAIN am.alert_history \subseteq DOMAIN am2.alert_history
              /\ Len(am2.sent_alerts) >= Len(am.sent_alerts)
              /\ SubSeq(am2.sent_alerts, 1, Len(am.sent_alerts)) = am.sent_alerts
              /\ (SendStep /\ ~last_send'.suppressed) =>
                    /\ am2.sent_alerts = Append(am.sent_alerts, am2.sent_alerts[Len(am2.sent_alerts)])
                    /\ am2.sent_alerts[Len(am2.sent_alerts)].id = id
                    /\ am2.sent_alerts[Len(am2.sent_alerts)].timestamp = now
                    /\ DOMAIN am2.alert_history = DOMAIN am.alert_history \cup {id}
                    /\ am2.alert_history[id] = now
                    /\ \A x \in DOMAIN am.alert_history \ {id} :
                            am2.alert_history[x] = am.alert_history[x]]_vars

\* an id was accepted twice, at two times, and the ledger holds the later time
C24_Witness ==
    LET am == managers[Bot]
    IN  /\ Len(am.sent_alerts) = 2
        /\ am.sent_alerts[1].id = am.sent_alerts[2].id
        /\ am.sent_alerts[1].timestamp < am.sent_alerts[2].timestamp
        /\ DOMAIN am.alert_history = {am.sent_alerts[1].id}
        /\ am.alert_history[am.sent_alerts[2].id] = am.sent_alerts[2].timestamp

\* the logged price-change alerts for the symbol of `call`, accepted on the day
\* of the call and less than one cooldown before it
RecentPriceAlerts(am, call) ==
    {i \in DOMAIN am.sent_alerts :
        /\ am.sent_alerts[i].type = "price_change"
        /\ am.sent_alerts[i].symbol = call.alert_id.symbol
        /\ Day(am.sent_alerts[i].timestamp) = Day(call.time)
        /\ call.time - am.sent_alerts[i].timestamp < am.cooldown_minutes * SecondsPerMinute}

\* C25: a price-change alert for a symbol for which the same manager accepted a
\* price-change alert on the same day less than one cooldown earlier is
\* suppressed, whatever its direction, magnitude, severity or message: it
\* returns False, reaches no sink and no callback and is not recorded.
C25_PriceAlertsDedupedByKeyNotContent ==
    [][(/\ SendStep
        /\ last_send'.call.alert_id.type = "price_change"
        /\ RecentPriceAlerts(managers[Bot], last_send'.call) # {})
       => /\ last_send'.suppressed
          /\ ~last_send'.result
          /\ NewSinkCalls = <<>>
          /\ NewCallbackCalls = <<>>
          /\ managers' = managers]_vars

\* an UP alert of severity info was delivered, and a later DOWN alert for the
\* symbol, of more than twice the threshold (severity warning), was suppressed
C25_Witness ==
    LET am == managers[Bot]
    IN  /\ last_send.called
        /\ last_send.suppressed
        /\ last_send.call.alert_id.type = "price_change"
        /\ last_send.call.data.change_pct = Rat(0 - 7, 1)
        /\ ConfiguredSinks(am) # {}
        /\ \E i \in RecentPriceAlerts(am, last_send.call) :
              /\ am.sent_alerts[i].message.direction = "UP"
              /\ am.sent_alerts[i].severity = "info"
              /\ am.sent_alerts[i].timestamp < last_send.call.time
              /\ \E k \in DOMAIN sink_log :
                    /\ sink_log[k].alert_id = am.sent_alerts[i].id
                    /\ sink_log[k].time = am.sent_alerts[i].timestamp
                    /\ sink_log[k].ok

\* C27: a suppressed send_alert call leaves the manager (ledger, last-sent
\* timestamps, alert log) and the statistics unchanged, calls no sink and no
\* callback, and returns False.
C27_SuppressedHasNoEffect ==
    [][(SendStep /\ last_send'.suppressed)
       => /\ managers' = managers
          /\ GetAlertStats(managers'[Bot], now') = GetAlertStats(managers[Bot], now)
          /\ sink_log' = sink_log
          /\ callback_log' = callback_log
          /\ ~last_send'.result
          /\ ~last_send'.console]_vars

\* a call on a manager with sinks and callbacks was suppressed some time after
\* the alert of its id was accepted, and the ledger still holds the earlier time
C27_Witness ==
    LET am == managers[Bot]
    IN  /\ last_send.called
        /\ last_send.suppressed
        /\ ConfiguredSinks(am) # {}
        /\ am.callbacks # <<>>
        /\ am.alert_history[last_send.call.alert_id] < last_send.call.time
        /\ Len(am.sent_alerts) = 1

\* C28: an accepted alert is in the ledger and the log and counted by the
\* statistics whatever the sinks answered, and a call with a dedup key whose
\* type, symbol and dedup key are those of an alert accepted less than one
\* cooldown earlier is suppressed and reaches no sink.
C28_RecordedAndRetrySuppressed ==
    [][SendStep =>
        LET am == managers[Bot]
            am2 == managers'[Bot]
            call == last_send'.call
        IN  /\ ~last_send'.suppressed =>
                /\ call.alert_id \in DOMAIN am2.alert_history
                /\ am2.sent_alerts[Len(am2.sent_alerts)].id = call.alert_id
                /\ GetAlertStats(am2, now').total_alerts
                        = GetAlertStats(am, now).total_alerts + 1
            /\ (call.dedup_key # NoKey /\ RecentSame(Bot, call) # {}) =>
                /\ last_send'.suppressed
                /\ NewSinkCalls = <<>>]_vars

\* every configured sink failed for an alert, which stayed recorded, and the
\* retry on the same day was suppressed
C28_RetrySuppressedSameDay ==
    LET am == managers[Bot]
    IN  /\ last_send.called
        /\ last_send.suppressed
        /\ ConfiguredSinks(am) # {}
        /\ Len(am.sent_alerts) = 1
        /\ am.sent_alerts[1].id = last_send.call.alert_id
        /\ \A k \in DOMAIN sink_log : ~sink_log[k].ok
        /\ sink_log # <<>>

(***************************************************************************)
(* Properties of the tenants' alert counters                               *)
(***************************************************************************)
\* the number of alerts in the log of the tenant's AlertManager
LoggedAlerts(u) ==
    IF AlertManagerKey(u) \in DOMAIN managers
    THEN Len(managers[AlertManagerKey(u)].sent_alerts) ELSE 0

\* C29: a tenant's alerts_sent equals the number of alerts in the log of that
\* tenant's AlertManager (a suppressed candidate does not increment it).
C29_CounterEqualsAcceptedAlerts ==
    \A u \in DOMAIN users : users[u].alerts_sent = LoggedAlerts(u)

\* a candidate of a tenant was suppressed and counted all the same
C29_SuppressedCounted ==
    /\ last_send.called
    /\ last_send.suppressed
    /\ \E u \in DOMAIN users :
          /\ last_send.manager = AlertManagerKey(u)
          /\ users[u].alerts_sent > LoggedAlerts(u)

(***************************************************************************)
(* Properties of SaaSService.stop                                          *)
(***************************************************************************)
\* stop() of the SaaS service has returned
StopReturned == ~running /\ pc \in {"idle", "users", "end", "except", "done"}

\* C30: once stop() has returned, the tenant state it saved is the tenant state
\* in memory: the monitoring loop changes no tenant after the save.
C30_PersistedEqualsFinalState == StopReturned => saved_users = users

\* stop() returned while the loop was inside a tick, and the loop then
\* dispatched an alert to a sink and counted it
C30_DispatchedAfterStop ==
    /\ StopReturned
    /\ last_send.called
    /\ ~last_send.suppressed
    /\ \E u \in DOMAIN users :
          /\ last_send.manager = AlertManagerKey(u)
          /\ u \in DOMAIN saved_users
          /\ users[u].alerts_sent > saved_users[u].alerts_sent
    /\ \E k \in DOMAIN sink_log : sink_log[k].alert_id = last_send.call.alert_id

====
